---- MODULE Spec2Model ----
(***************************************************************************)
(* A model of the skry-stream combinators (skry_stream/stream.py) and of   *)
(* the skry-di container (skry_di/container.py).                           *)
(*                                                                         *)
(* The operators run on one asyncio event loop: a task runs without        *)
(* interruption from one suspension point (an await that really waits) to  *)
(* the next.  The variable `running` names the task that holds the loop;   *)
(* 0 means every task is suspended and the loop may resume any of them.    *)
(*                                                                         *)
(* The sub-systems are modelled each with a specification of its own:      *)
(*   SpecSplit         Stream.split(n): _SplitState / _split_stream        *)
(*   SpecSplitCancel   the same, with consumers that are cancelled         *)
(*   SpecMerge         Stream.merge                                        *)
(*   SpecMergePulled   Stream.merge pulled to its end, scheduled fairly    *)
(*   SpecMergeValues   Stream.merge over elements that are exception       *)
(*                     objects                                             *)
(*   SpecMergeOrdered  Stream.merge_ordered                                *)
(*   SpecZip           Stream.zip and Stream.zip_longest                   *)
(*   SpecChunk         Stream.chunk                                        *)
(*   SpecWindow        Stream.window                                       *)
(*   SpecSliding       Stream.sliding_window                               *)
(*   SpecBatches       chunk, window and sliding_window together           *)
(*   SpecPipe          Stream.tap, Stream.skip and Stream.take in a chain  *)
(*   SpecConstruct     the calls Stream.split(n) and Stream.sliding_window *)
(*                     and the streams they build                          *)
(*   SpecCallback      Stream.map, Stream.filter and Stream.tap with a     *)
(*                     callback that may raise                             *)
(*   SpecElementwise   SpecCallback and SpecPipe together                  *)
(*   SpecSink          Stream.sink                                         *)
(*   SpecLazy          the building of split, sliding_window, map, filter, *)
(*                     tap, merge and chunk pipelines, and their first     *)
(*                     pulls                                               *)
(*   SpecContainer     Container.register, resolve and scope               *)
(*   SpecScopes        Container.resolve and scope with the registrations  *)
(*                     fixed                                               *)
(***************************************************************************)
EXTENDS Integers, Sequences, FiniteSets, TLC

\* ------------------------------------------------------------------ bounds
NBranches == 2       \* branches asked of split(n)
MaxLen == 2          \* longest upstream sequence of a split
NVals == 2           \* element values 1..NVals
MaxExtraPulls == 1   \* pulls a consumer makes on a generator after its end
MaxSources == 2      \* sources of a merge (the receiver and the others)
MergeMaxTotal == 3   \* elements of all sources of a merge together
PulledMaxTotal == 2  \* elements of all sources of a merge pulled to its end
MoMaxSources == 2    \* sources of a merge_ordered
MoMaxLen == 2        \* elements of a merge_ordered source that have a key
MoMaxKey == 2        \* keys 1..MoMaxKey
ZipMaxInputs == 3    \* inputs of a zip or zip_longest (the receiver and the others)
ZipMaxLen == 2       \* longest input of a zip or zip_longest
ChunkMaxLen == 4     \* longest upstream of a chunk
ChunkMaxSize == 2    \* largest size asked of chunk
WinMaxLen == 3       \* longest upstream of a window
WinMaxStamp == 2     \* timestamps 0..WinMaxStamp
WinMaxInterval == 1  \* largest interval asked of window
SwMaxLen == 3        \* longest upstream of a sliding_window
SwMaxStamp == 2      \* timestamps 0..SwMaxStamp
SwMaxSize == 2       \* largest size asked of sliding_window
SwMaxAdvance == 2    \* largest advance asked of sliding_window
PipeMaxLen == 5      \* longest source of the pipeline
PipeMaxSkip == 1     \* largest count asked of skip
PipeMaxTake == 3     \* largest count asked of take
CbMaxLen == 3        \* longest source of a map, filter or tap
SinkMaxLen == 3      \* longest upstream of a sink
SinkMaxParallel == 2 \* largest parallel asked of sink
DiMaxRegisters == 1  \* registrations after the first ones
DiMaxInstances == 3  \* instances the factories make
DiMaxScopes == 2     \* scopes entered

VARIABLES
    \* ---- split: the upstream and the _SplitState
    split_source,    \* [items, fails]: the upstream's elements, and whether it then fails
    iterator,        \* elements of the upstream consumed so far (self.iterator)
    raised,          \* the upstream generator has raised its failure
    buffers,         \* self.buffers: one FIFO per branch
    done,            \* self.done
    error,           \* self.error ("None" or the stored exception)
    lock,            \* self.lock: [locked, waiters]
    \* ---- split: the branches and their consumers
    branch_pc,       \* where each branch's next_for stands
    closed,          \* the branch's generator (_iterator) has finished
    delivered,       \* elements each branch has yielded to its consumer
    signals,         \* terminal signals each consumer has received, in order
    requests,        \* calls of next_for made by each branch
    extra,           \* pulls made on a branch whose generator has finished
    advances,        \* calls of anext(self.iterator)
    running,         \* the task holding the event loop (0: none)
    split_call,      \* the call split(branches): [branches, result]
    \* ---- merge
    merge_sources,   \* sources: per source [len, fails]; its k-th element is <<source, k>>
    pump_pos,        \* elements each source has produced so far
    tasks,           \* state of each pumping task
    cancel_req,      \* task.cancel() was called on a task that had not ended
    queue,           \* the asyncio.Queue of _merge
    active_sources,  \* active_sources
    merge_pc,        \* where the _merge generator stands
    merge_out,       \* elements _merge has yielded to its consumer
    merge_error,     \* the queue entry _merge raised from
    \* ---- merge_ordered
    mo_sources,      \* sources: per source [items, end]
    iterators,       \* iterators: elements each source has produced so far
    mo_asked,        \* calls of anext made on each source
    iter_state,      \* per source: "live", "exhausted" or "failed"
    heap,            \* heap: entries [key, source_index, order, item]
    order_counter,   \* order_counter: the next insertion number
    source_index,    \* source_index: the source being advanced
    mo_pc,           \* where the _merge_ordered generator stands
    mo_out,          \* elements yielded, each with the source it came from
    mo_error,        \* the exception that left the generator ("None": none)
    mo_pulls,        \* pulls the consumer has made
    mo_extra,        \* pulls made after the generator had finished
    \* ---- zip and zip_longest
    zip_mode,        \* which of the two operators was built: "zip" or "zip_longest"
    zip_inputs,      \* inputs: per input [len, fails]; its k-th element is [src, k]
    zip_asked,       \* calls of anext made on each input
    finished,        \* finished (zip_longest)
    items,           \* items: the tuple of the round under way
    all_finished,    \* all_finished (zip_longest)
    zip_index,       \* the input the round's for loop stands at
    zip_round,       \* rounds begun
    zip_pc,          \* where the generator stands
    zip_out,         \* tuples yielded to the consumer
    zip_error,       \* the exception that left the generator ("None": none)
    zip_extra,       \* pulls made after the generator had finished
    \* ---- chunk
    chunk_source,    \* the upstream: [len, fails]; its k-th element is k
    size,            \* size
    chunk_asked,     \* calls of anext made on the upstream
    chunk,           \* chunk: the batch being filled
    chunk_item,      \* item: the element held across the yield of line 267
    chunk_pc,        \* where the generator stands
    chunk_out,       \* batches yielded to the consumer
    chunk_error,     \* the exception that left the generator ("None": none)
    chunk_extra,     \* pulls made after the generator had finished
    \* ---- window: one generator per value of include_partial, over equal upstreams
    win_source,      \* the upstream: [stamps, fails]; its k-th element is k, stamped stamps[k]
    interval,        \* interval
    win_asked,       \* calls of anext made on the upstream
    win_chunk,       \* chunk: the batch being filled
    ts,              \* ts: <<>> for None, <<t>> for the open window's start
    win_item,        \* item: the element held across the yield of line 294
    win_pc,          \* where the generator stands
    win_out,         \* batches yielded to the consumer
    win_error,       \* the exception that left the generator ("None": none)
    win_extra,       \* pulls made after the generator had finished
    \* ---- sliding_window
    sw_source,       \* the upstream: [items, fails]; an item is <<>> (None) or <<timestamp>>
    sw_size,         \* size
    advance,         \* advance
    sw_partial,      \* include_partial
    sw_asked,        \* calls of anext made on the upstream
    windows,         \* windows: the open windows, each [ts, items]
    last_start,      \* last_start: <<>> for None, <<t>> for the newest window's start
    next_windows,    \* next_windows
    sw_index,        \* the window the for loop of line 335 or 348 stands at
    sw_item,         \* item: the element being placed
    sw_pc,           \* where the call and the generator stand
    sw_out,          \* batches yielded: [items, ts, at], at the element on whose arrival
    sw_error,        \* the exception raised ("None": none)
    sw_extra,        \* pulls made after the generator had finished
    \* ---- the pipeline source -> tap(callback) -> skip(count) -> take(count)
    pipe_source,     \* the source: [len, fails]; its k-th element is k
    skip_count,      \* count of skip
    take_count,      \* count of take
    pipe_asked,      \* calls of anext made on the source
    tap_seen,        \* elements the callback of tap was called with, in order
    skipped,         \* skipped (skip)
    seen,            \* seen (take)
    take_pulls,      \* calls of anext(iterator) made by take on the skip stream
    pipe_pc,         \* where the generators stand
    pipe_out,        \* elements the take stream has yielded to the consumer
    pipe_error,      \* the exception that left the generators ("None": none)
    pipe_extra,      \* pulls made after the take generator had finished
    \* ---- map, filter and tap: one stream built over the source
    cb_op,           \* the operator built: "map", "filter" or "tap"
    cb_source,       \* the source: [len, fails]; its k-th element is k
    predicate,       \* the callable: what it does with each element
    cb_asked,        \* calls of anext made on the source
    called,          \* elements the callable was called with, in order
    cb_pc,           \* where the call and the generator stand
    cb_out,          \* elements yielded to the consumer
    cb_error,        \* the exception that left the generator ("None": none)
    cb_extra,        \* pulls made after the generator had finished
    \* ---- sink
    sink_source,     \* the upstream: [len, fails]; its k-th element is k
    parallel,        \* parallel
    sink_raises,     \* the element whose invocation of sink raises (0: none)
    sink_asked,      \* calls of anext made on the upstream
    sink_chunk,      \* chunk: the elements whose awaitables are staged
    sink_calls,      \* elements sink(item) was called with, in order
    invocations,     \* per element, the state of sink(item) called for it
    sink_pc,         \* where the coroutine Stream.sink stands
    sink_error,      \* the exception that left Stream.sink ("None": none)
    \* ---- skry_di.Container
    providers,       \* self._providers: per token [factory, lifetime]
    singletons,      \* self._singletons: per token the instance held (0: none)
    scoped_cache,    \* self._scoped_cache: <<>> for None, <<[id, held]>> for a dict
    scope_tokens,    \* scope_token of every `with container.scope()` under way
    instances,       \* the instances factories have made, in order of making
    registered,      \* later registrations; the n-th stores factory n
    entered,         \* calls of scope() entered; the n-th makes dict n
    di_result        \* the last call and how it ended

callVars == <<split_call>>

splitVars == <<split_source, iterator, raised, buffers, done, error, lock,
               branch_pc, closed, delivered, signals, requests, extra,
               advances, running>>

mergeVars == <<merge_sources, pump_pos, tasks, cancel_req, queue,
               active_sources, merge_pc, merge_out, merge_error>>

orderedVars == <<mo_sources, iterators, mo_asked, iter_state, heap,
                 order_counter, source_index, mo_pc, mo_out, mo_error,
                 mo_pulls, mo_extra>>

zipVars == <<zip_mode, zip_inputs, zip_asked, finished, items, all_finished,
             zip_index, zip_round, zip_pc, zip_out, zip_error, zip_extra>>

chunkVars == <<chunk_source, size, chunk_asked, chunk, chunk_item, chunk_pc,
               chunk_out, chunk_error, chunk_extra>>

windowVars == <<win_source, interval, win_asked, win_chunk, ts, win_item,
                win_pc, win_out, win_error, win_extra>>

slidingVars == <<sw_source, sw_size, advance, sw_partial, sw_asked, windows,
                 last_start, next_windows, sw_index, sw_item, sw_pc, sw_out,
                 sw_error, sw_extra>>

pipeVars == <<pipe_source, skip_count, take_count, pipe_asked, tap_seen,
              skipped, seen, take_pulls, pipe_pc, pipe_out, pipe_error,
              pipe_extra>>

callbackVars == <<cb_op, cb_source, predicate, cb_asked, called, cb_pc,
                  cb_out, cb_error, cb_extra>>

sinkVars == <<sink_source, parallel, sink_raises, sink_asked, sink_chunk,
             sink_calls, invocations, sink_pc, sink_error>>

containerVars == <<providers, singletons, scoped_cache, scope_tokens,
                  instances, registered, entered, di_result>>

vars == <<callVars, splitVars, mergeVars, orderedVars, zipVars, chunkVars,
          windowVars, slidingVars, pipeVars, callbackVars, sinkVars,
          containerVars>>

\* What the actions of one sub-system leave alone: the other sub-systems.
otherThanSplit == <<callVars, mergeVars, orderedVars, zipVars, chunkVars,
                    windowVars, slidingVars, pipeVars, callbackVars, sinkVars,
                    containerVars>>
otherThanMerge == <<callVars, splitVars, orderedVars, zipVars, chunkVars,
                    windowVars, slidingVars, pipeVars, callbackVars, sinkVars,
                    containerVars>>
otherThanOrdered == <<callVars, splitVars, mergeVars, zipVars, chunkVars,
                      windowVars, slidingVars, pipeVars, callbackVars,
                      sinkVars, containerVars>>
otherThanZip == <<callVars, splitVars, mergeVars, orderedVars, chunkVars,
                  windowVars, slidingVars, pipeVars, callbackVars, sinkVars,
                  containerVars>>
otherThanChunk == <<callVars, splitVars, mergeVars, orderedVars, zipVars,
                    windowVars, slidingVars, pipeVars, callbackVars, sinkVars,
                    containerVars>>
otherThanWindow == <<callVars, splitVars, mergeVars, orderedVars, zipVars,
                     chunkVars, slidingVars, pipeVars, callbackVars, sinkVars,
                     containerVars>>
otherThanSliding == <<callVars, splitVars, mergeVars, orderedVars, zipVars,
                      chunkVars, windowVars, pipeVars, callbackVars, sinkVars,
                      containerVars>>
otherThanPipe == <<callVars, splitVars, mergeVars, orderedVars, zipVars,
                   chunkVars, windowVars, slidingVars, callbackVars, sinkVars,
                   containerVars>>
otherThanCallback == <<callVars, splitVars, mergeVars, orderedVars, zipVars,
                       chunkVars, windowVars, slidingVars, pipeVars, sinkVars,
                       containerVars>>
otherThanSink == <<callVars, splitVars, mergeVars, orderedVars, zipVars,
                   chunkVars, windowVars, slidingVars, pipeVars, callbackVars,
                   containerVars>>
otherThanContainer == <<callVars, splitVars, mergeVars, orderedVars, zipVars,
                        chunkVars, windowVars, slidingVars, pipeVars,
                        callbackVars, sinkVars>>

\* ----------------------------------------------------------------- helpers
Branches == 1..NBranches
Vals == 1..NVals

Range(s) == {s[i] : i \in DOMAIN s}

SeqsUpTo(S, n) == UNION {[1..k -> S] : k \in 0..n}

\* The upstream of a split: what the next anext(self.iterator) returns.
UpstreamNext ==
    IF iterator < Len(split_source.items) THEN "item"
    ELSE IF split_source.fails /\ ~raised THEN "boom"
    ELSE "StopAsyncIteration"

\* The elements pulled from the upstream so far.
Pulled == SubSeq(split_source.items, 1, iterator)

\* ------------------------------------------------------------ asyncio.Lock
\* Lock.acquire without waiting: the lock is free and nobody queues for it.
LockFree == ~lock.locked /\ lock.waiters = <<>>

\* Lock.release (the exit of `async with self.lock`): the first waiter, if
\* any, is woken and takes the lock when the loop resumes it.
Release == [lock EXCEPT !.locked = FALSE]

\* ------------------------------------------------------------------- split
SplitInit ==
    /\ split_source \in [items : SeqsUpTo(Vals, MaxLen), fails : BOOLEAN]
    /\ iterator = 0
    /\ raised = FALSE
    /\ buffers = [i \in Branches |-> <<>>]
    /\ done = FALSE
    /\ error = "None"
    /\ lock = [locked |-> FALSE, waiters |-> <<>>]
    /\ branch_pc = [i \in Branches |-> "idle"]
    /\ closed = [i \in Branches |-> FALSE]
    /\ delivered = [i \in Branches |-> <<>>]
    /\ signals = [i \in Branches |-> <<>>]
    /\ requests = [i \in Branches |-> 0]
    /\ extra = [i \in Branches |-> 0]
    /\ advances = 0
    /\ running = 0

\* The consumer of branch i pulls: _iterator resumes and calls next_for(i).
Pull(i) ==
    /\ running = 0
    /\ branch_pc[i] = "idle"
    /\ ~closed[i]
    /\ branch_pc' = [branch_pc EXCEPT ![i] = "top"]
    /\ requests' = [requests EXCEPT ![i] = @ + 1]
    /\ running' = i
    /\ UNCHANGED <<split_source, iterator, raised, buffers, done, error, lock,
                   closed, delivered, signals, extra, advances>>
    /\ UNCHANGED otherThanSplit

\* A pull on a branch whose generator has finished: an async generator that
\* returned or raised answers StopAsyncIteration and runs no code.
PullClosed(i) ==
    /\ running = 0
    /\ branch_pc[i] = "idle"
    /\ closed[i]
    /\ extra[i] < MaxExtraPulls
    /\ extra' = [extra EXCEPT ![i] = @ + 1]
    /\ signals' = [signals EXCEPT ![i] = Append(@, "StopAsyncIteration")]
    /\ UNCHANGED <<split_source, iterator, raised, buffers, done, error, lock,
                   branch_pc, closed, delivered, requests, advances, running>>
    /\ UNCHANGED otherThanSplit

\* next_for, lines 404-406: the branch's FIFO holds an element.
TopDeliver(i) ==
    /\ running = i
    /\ branch_pc[i] = "top"
    /\ buffers[i] # <<>>
    /\ delivered' = [delivered EXCEPT ![i] = Append(@, Head(buffers[i]))]
    /\ buffers' = [buffers EXCEPT ![i] = Tail(@)]
    /\ branch_pc' = [branch_pc EXCEPT ![i] = "idle"]
    /\ running' = 0
    /\ UNCHANGED <<split_source, iterator, raised, done, error, lock, closed,
                   signals, requests, extra, advances>>
    /\ UNCHANGED otherThanSplit

\* A next_for that forgets the stored error and always reports exhaustion.
TerminalSignal_Swallowed == "StopAsyncIteration"

\* The signal a branch raises once the split is terminated (lines 408-411).
TerminalSignal == IF error # "None" THEN error ELSE "StopAsyncIteration"

\* next_for, lines 408-411, and _iterator, lines 440-443: the FIFO is empty
\* and the split is terminated.  The stored error leaves the generator; a
\* StopAsyncIteration makes it break.  Either way the generator has finished.
TopTerminated(i) ==
    /\ running = i
    /\ branch_pc[i] = "top"
    /\ buffers[i] = <<>>
    /\ done
    /\ signals' = [signals EXCEPT ![i] = Append(@, TerminalSignal)]
    /\ closed' = [closed EXCEPT ![i] = TRUE]
    /\ branch_pc' = [branch_pc EXCEPT ![i] = "idle"]
    /\ running' = 0
    /\ UNCHANGED <<split_source, iterator, raised, buffers, done, error, lock,
                   delivered, requests, extra, advances>>
    /\ UNCHANGED otherThanSplit

\* next_for, line 413: `async with self.lock`.  A free lock is taken at once;
\* otherwise the branch queues for it and is suspended.
TopAcquire(i) ==
    /\ running = i
    /\ branch_pc[i] = "top"
    /\ buffers[i] = <<>>
    /\ ~done
    /\ IF LockFree
       THEN /\ lock' = [lock EXCEPT !.locked = TRUE]
            /\ branch_pc' = [branch_pc EXCEPT ![i] = "locked"]
            /\ running' = i
       ELSE /\ lock' = [lock EXCEPT !.waiters = Append(@, i)]
            /\ branch_pc' = [branch_pc EXCEPT ![i] = "waiting"]
            /\ running' = 0
    /\ UNCHANGED <<split_source, iterator, raised, buffers, done, error,
                   closed, delivered, signals, requests, extra, advances>>
    /\ UNCHANGED otherThanSplit

\* Lock.acquire resumes: the woken first waiter takes the released lock.
Wake(i) ==
    /\ running = 0
    /\ branch_pc[i] = "waiting"
    /\ ~lock.locked
    /\ lock.waiters # <<>>
    /\ Head(lock.waiters) = i
    /\ lock' = [locked |-> TRUE, waiters |-> Tail(lock.waiters)]
    /\ branch_pc' = [branch_pc EXCEPT ![i] = "locked"]
    /\ running' = i
    /\ UNCHANGED <<split_source, iterator, raised, buffers, done, error,
                   closed, delivered, signals, requests, extra, advances>>
    /\ UNCHANGED otherThanSplit

\* next_for, lines 414-418: under the lock, the FIFO and the terminated flag
\* are checked again; `continue` leaves the lock and goes back to the top.
NeedsAdvance_NoRecheck(i) == TRUE

\* A recheck that looks at the FIFO only and not at the terminated flag.
NeedsAdvance_IgnoresDone(i) == buffers[i] = <<>>

NeedsAdvance(i) == buffers[i] = <<>> /\ ~done

Recheck(i) ==
    /\ running = i
    /\ branch_pc[i] = "locked"
    /\ ~NeedsAdvance(i)
    /\ lock' = Release
    /\ branch_pc' = [branch_pc EXCEPT ![i] = "top"]
    /\ UNCHANGED <<split_source, iterator, raised, buffers, done, error,
                   closed, delivered, signals, requests, extra, advances,
                   running>>
    /\ UNCHANGED otherThanSplit

\* next_for, line 421: the branch calls anext(self.iterator) and is
\* suspended until the upstream answers.
StartAdvance(i) ==
    /\ running = i
    /\ branch_pc[i] = "locked"
    /\ NeedsAdvance(i)
    /\ advances' = advances + 1
    /\ branch_pc' = [branch_pc EXCEPT ![i] = "advancing"]
    /\ running' = 0
    /\ UNCHANGED <<split_source, iterator, raised, buffers, done, error, lock,
                   closed, delivered, signals, requests, extra>>
    /\ UNCHANGED otherThanSplit

\* A split that gives the element to the first branch only.
AppendToAll_FirstOnly(item) ==
    [b \in Branches |-> IF b = 1 THEN Append(buffers[b], item) ELSE buffers[b]]

\* A split that puts the element at the front of every FIFO.
AppendToAll_Front(item) == [b \in Branches |-> <<item>> \o buffers[b]]

\* next_for, lines 430-431: the element goes to every branch FIFO.
AppendToAll(item) == [b \in Branches |-> Append(buffers[b], item)]

\* next_for, lines 421-431: the upstream answers with an element, with
\* StopAsyncIteration or with its failure; the lock is left.
FinishAdvance(i) ==
    /\ running = 0
    /\ branch_pc[i] = "advancing"
    /\ CASE UpstreamNext = "item" ->
              /\ iterator' = iterator + 1
              /\ buffers' = AppendToAll(split_source.items[iterator + 1])
              /\ UNCHANGED <<done, error, raised>>
         [] UpstreamNext = "StopAsyncIteration" ->
              /\ done' = TRUE
              /\ UNCHANGED <<iterator, buffers, error, raised>>
         [] OTHER ->
              /\ error' = UpstreamNext
              /\ done' = TRUE
              /\ raised' = TRUE
              /\ UNCHANGED <<iterator, buffers>>
    /\ lock' = Release
    /\ branch_pc' = [branch_pc EXCEPT ![i] = "top"]
    /\ running' = i
    /\ UNCHANGED <<split_source, closed, delivered, signals, requests, extra,
                   advances>>
    /\ UNCHANGED otherThanSplit

\* next_for, lines 420-427, when the task that consumes branch i is cancelled
\* while it waits in anext(self.iterator): CancelledError is raised at the
\* await, `except BaseException` catches it, stores it in self.error and sets
\* self.done; the lock is left and the loop goes back to the top.
CancelAdvance(i) ==
    /\ running = 0
    /\ branch_pc[i] = "advancing"
    /\ error' = "CancelledError"
    /\ done' = TRUE
    /\ lock' = Release
    /\ branch_pc' = [branch_pc EXCEPT ![i] = "top"]
    /\ running' = i
    /\ UNCHANGED <<split_source, iterator, raised, buffers, closed, delivered,
                   signals, requests, extra, advances>>
    /\ UNCHANGED otherThanSplit

SplitNext ==
    \E i \in Branches :
        \/ Pull(i)
        \/ PullClosed(i)
        \/ TopDeliver(i)
        \/ TopTerminated(i)
        \/ TopAcquire(i)
        \/ Wake(i)
        \/ Recheck(i)
        \/ StartAdvance(i)
        \/ FinishAdvance(i)

\* ------------------------------------------------------------------- merge
\* A source of the merge is a finite producer: `len` elements, then either
\* exhaustion or a failure.  Its k-th element is the token <<source, k>>;
\* `exc_at` is the position of an element whose value is an exception object
\* (0: the source has no such element).
Pumps == DOMAIN merge_sources

NoEntry == [obj |-> "None", src |-> 0, idx |-> 0]

\* What the queue holds: a source's element, an exception, or the marker.
ItemEntry(t, k) == [obj |-> "item", src |-> t, idx |-> k]
ExcEntry(t, exc) == [obj |-> exc, src |-> t, idx |-> 0]

\* A pump that ends by putting an ordinary element instead of the marker.
DoneEntry_AsItem(t) == ItemEntry(t, 0)

DoneEntry(t) == [obj |-> "done_marker", src |-> t, idx |-> 0]

\* A consumer that takes the marker for an element.
IsDoneMarker_Never(e) == FALSE

\* _merge, line 133: `item is done_marker`.
IsDoneMarker(e) == e.obj = "done_marker"

\* _merge, line 136: isinstance(item, BaseException).
IsBaseException(e) == e.obj \in {"boom", "CancelledError", "ValueError"}

\* The k-th element of source t as the queue holds it (line 122): the object
\* itself, with nothing that tells how it came there.
Yielded(t, k) ==
    IF merge_sources[t].exc_at = k
    THEN [obj |-> "ValueError", src |-> t, idx |-> k]
    ELSE ItemEntry(t, k)

\* A queue that hands out its newest entry first.
Put_Front(q, e) == <<e>> \o q

\* queue.put on the unbounded queue (lines 122, 124, 126): never waits.
Put(q, e) == Append(q, e)

RECURSIVE SumLen(_, _)
SumLen(srcs, n) == IF n = 0 THEN 0 ELSE srcs[n].len + SumLen(srcs, n - 1)

MergeIdle ==
    /\ merge_sources = <<>>
    /\ pump_pos = <<>>
    /\ tasks = <<>>
    /\ cancel_req = <<>>
    /\ queue = <<>>
    /\ active_sources = 0
    /\ merge_pc = "unused"
    /\ merge_out = <<>>
    /\ merge_error = NoEntry

\* merge(*others) builds the generator and runs nothing (lines 113-145).
MergeInit ==
    /\ \E n \in 1..MaxSources :
           merge_sources \in [1..n -> [len : 0..MergeMaxTotal, fails : BOOLEAN,
                                       exc_at : {0}]]
    /\ SumLen(merge_sources, Len(merge_sources)) <= MergeMaxTotal
    /\ pump_pos = [t \in Pumps |-> 0]
    /\ tasks = [t \in Pumps |-> "none"]
    /\ cancel_req = [t \in Pumps |-> FALSE]
    /\ queue = <<>>
    /\ active_sources = 0
    /\ merge_pc = "unstarted"
    /\ merge_out = <<>>
    /\ merge_error = NoEntry

\* A merge whose sources may hold an element that is an exception object
\* (a stream of results, a stream of errors to report).
MergeValuesInit ==
    /\ \E n \in 1..MaxSources :
           merge_sources \in [1..n -> [len : 0..MergeMaxTotal, fails : BOOLEAN,
                                       exc_at : 0..MergeMaxTotal]]
    /\ SumLen(merge_sources, Len(merge_sources)) <= MergeMaxTotal
    /\ \A t \in Pumps : merge_sources[t].exc_at <= merge_sources[t].len
    /\ pump_pos = [t \in Pumps |-> 0]
    /\ tasks = [t \in Pumps |-> "none"]
    /\ cancel_req = [t \in Pumps |-> FALSE]
    /\ queue = <<>>
    /\ active_sources = 0
    /\ merge_pc = "unstarted"
    /\ merge_out = <<>>
    /\ merge_error = NoEntry

\* The _merge generator is suspended (or over): the loop runs the pumps.
MergeSuspended ==
    merge_pc \in {"getting", "yielded", "gathering_error", "gathering_end",
                  "raised", "exhausted", "closed"}

Ended(t) == tasks[t] = "finished"

\* asyncio.gather(*tasks) has every task's result (lines 139, 143).
Gathered_NoWait == TRUE

Gathered == \A t \in Pumps : Ended(t)

\* The first pull: lines 115-129 create one task per source.
MergeStart ==
    /\ merge_pc = "unstarted"
    /\ tasks' = [t \in Pumps |-> "scheduled"]
    /\ active_sources' = Len(merge_sources)
    /\ merge_pc' = "loop"
    /\ UNCHANGED <<merge_sources, pump_pos, cancel_req, queue, merge_out,
                   merge_error>>
    /\ UNCHANGED otherThanMerge

\* A later pull resumes the generator after its yield (line 141).
MergeResume ==
    /\ merge_pc = "yielded"
    /\ merge_pc' = "loop"
    /\ UNCHANGED <<merge_sources, pump_pos, tasks, cancel_req, queue,
                   active_sources, merge_out, merge_error>>
    /\ UNCHANGED otherThanMerge

\* Line 132 with an empty queue: queue.get() waits.
MergeWait ==
    /\ merge_pc = "loop"
    /\ active_sources > 0
    /\ queue = <<>>
    /\ merge_pc' = "getting"
    /\ UNCHANGED <<merge_sources, pump_pos, tasks, cancel_req, queue,
                   active_sources, merge_out, merge_error>>
    /\ UNCHANGED otherThanMerge

\* task.cancel() on every task (lines 137-138); it matters to those that
\* have not ended.
CancelAll == [t \in Pumps |-> cancel_req[t] \/ ~Ended(t)]

\* Lines 132-141: one queue entry is taken and classified.  The loop runs
\* its callbacks in the order they were scheduled: the first steps of the
\* tasks made at line 128 come before the wake-up of queue.get(), which a
\* put schedules, so the consumer never resumes before every pump started.
MergeGet ==
    /\ merge_pc \in {"loop", "getting"}
    /\ active_sources > 0
    /\ queue # <<>>
    /\ \A t \in Pumps : tasks[t] # "scheduled"
    /\ queue' = Tail(queue)
    /\ LET item == Head(queue) IN
       IF IsDoneMarker(item)
       THEN /\ active_sources' = active_sources - 1
            /\ merge_pc' = "loop"
            /\ UNCHANGED <<cancel_req, merge_out, merge_error>>
       ELSE IF IsBaseException(item)
       THEN /\ cancel_req' = CancelAll
            /\ merge_error' = item
            /\ merge_pc' = "gathering_error"
            /\ UNCHANGED <<active_sources, merge_out>>
       ELSE /\ merge_out' = Append(merge_out, item)
            /\ merge_pc' = "yielded"
            /\ UNCHANGED <<active_sources, cancel_req, merge_error>>
    /\ UNCHANGED <<merge_sources, pump_pos, tasks>>
    /\ UNCHANGED otherThanMerge

\* Lines 139-140: the gather is over, the exception is raised.
MergeRaise ==
    /\ merge_pc = "gathering_error"
    /\ Gathered
    /\ merge_pc' = "raised"
    /\ UNCHANGED <<merge_sources, pump_pos, tasks, cancel_req, queue,
                   active_sources, merge_out, merge_error>>
    /\ UNCHANGED otherThanMerge

\* Line 131 with active_sources = 0: the loop is left for line 143.
MergeLoopExit ==
    /\ merge_pc = "loop"
    /\ active_sources = 0
    /\ merge_pc' = "gathering_end"
    /\ UNCHANGED <<merge_sources, pump_pos, tasks, cancel_req, queue,
                   active_sources, merge_out, merge_error>>
    /\ UNCHANGED otherThanMerge

\* Line 143: the gather is over, the generator returns.
MergeReturn ==
    /\ merge_pc = "gathering_end"
    /\ Gathered
    /\ merge_pc' = "exhausted"
    /\ UNCHANGED <<merge_sources, pump_pos, tasks, cancel_req, queue,
                   active_sources, merge_out, merge_error>>
    /\ UNCHANGED otherThanMerge

\* The consumer stops pulling and closes the generator while it is suspended
\* at its yield (line 141): GeneratorExit is raised there, and no handler or
\* finally clause of _merge surrounds the yield.
MergeClose ==
    /\ merge_pc = "yielded"
    /\ merge_pc' = "closed"
    /\ UNCHANGED <<merge_sources, pump_pos, tasks, cancel_req, queue,
                   active_sources, merge_out, merge_error>>
    /\ UNCHANGED otherThanMerge

\* _pump starts: it enters the try and waits in anext(source) (line 121).
PumpStart(t) ==
    /\ MergeSuspended
    /\ tasks[t] = "scheduled"
    /\ ~cancel_req[t]
    /\ tasks' = [tasks EXCEPT ![t] = "waiting"]
    /\ UNCHANGED <<merge_sources, pump_pos, cancel_req, queue, active_sources,
                   merge_pc, merge_out, merge_error>>
    /\ UNCHANGED otherThanMerge

\* Lines 121-122: the source yields its next element, which is enqueued; the
\* pump waits for the next one.
PumpItem(t) ==
    /\ MergeSuspended
    /\ tasks[t] = "waiting"
    /\ ~cancel_req[t]
    /\ pump_pos[t] < merge_sources[t].len
    /\ pump_pos' = [pump_pos EXCEPT ![t] = @ + 1]
    /\ queue' = Put(queue, Yielded(t, pump_pos[t] + 1))
    /\ UNCHANGED <<merge_sources, tasks, cancel_req, active_sources, merge_pc,
                   merge_out, merge_error>>
    /\ UNCHANGED otherThanMerge

\* Lines 121, 125-126: the source is exhausted; the marker is enqueued.
PumpExhausted(t) ==
    /\ MergeSuspended
    /\ tasks[t] = "waiting"
    /\ ~cancel_req[t]
    /\ pump_pos[t] = merge_sources[t].len
    /\ ~merge_sources[t].fails
    /\ queue' = Put(queue, DoneEntry(t))
    /\ tasks' = [tasks EXCEPT ![t] = "finished"]
    /\ UNCHANGED <<merge_sources, pump_pos, cancel_req, active_sources,
                   merge_pc, merge_out, merge_error>>
    /\ UNCHANGED otherThanMerge

\* Lines 123-126: the source fails; the exception and then the marker are
\* enqueued.
PumpFailed(t) ==
    /\ MergeSuspended
    /\ tasks[t] = "waiting"
    /\ ~cancel_req[t]
    /\ pump_pos[t] = merge_sources[t].len
    /\ merge_sources[t].fails
    /\ queue' = Put(Put(queue, ExcEntry(t, "boom")), DoneEntry(t))
    /\ tasks' = [tasks EXCEPT ![t] = "finished"]
    /\ UNCHANGED <<merge_sources, pump_pos, cancel_req, active_sources,
                   merge_pc, merge_out, merge_error>>
    /\ UNCHANGED otherThanMerge

\* Lines 123-126 for a cancelled task: CancelledError is raised in the await
\* of line 121, caught by `except BaseException`, enqueued, and the marker
\* follows; the task ends.
PumpCancelled(t) ==
    /\ MergeSuspended
    /\ tasks[t] = "waiting"
    /\ cancel_req[t]
    /\ queue' = Put(Put(queue, ExcEntry(t, "CancelledError")), DoneEntry(t))
    /\ tasks' = [tasks EXCEPT ![t] = "finished"]
    /\ UNCHANGED <<merge_sources, pump_pos, cancel_req, active_sources,
                   merge_pc, merge_out, merge_error>>
    /\ UNCHANGED otherThanMerge

MergeNext ==
    \/ MergeStart
    \/ MergeResume
    \/ MergeWait
    \/ MergeGet
    \/ MergeRaise
    \/ MergeLoopExit
    \/ MergeReturn
    \/ MergeClose
    \/ \E t \in Pumps : PumpStart(t)
    \/ \E t \in Pumps : PumpItem(t)
    \/ \E t \in Pumps : PumpExhausted(t)
    \/ \E t \in Pumps : PumpFailed(t)
    \/ \E t \in Pumps : PumpCancelled(t)

\* ----------------------------------------------------------- merge_ordered
\* An element is the value of its key field; NoKey is an element without the
\* field, on which the key function raises KeyError.
NoKey == 0

MoSources == DOMAIN mo_sources

IsSorted(s) == \A i, j \in 1..Len(s) : i <= j => s[i] <= s[j]

SortedSeqs == {s \in SeqsUpTo(1..MoMaxKey, MoMaxLen) : IsSorted(s)}

\* How a source ends: it is exhausted, it fails, or it yields one more
\* element, which has no key.
SourceEnds == {"StopAsyncIteration", "boom", "nokey"}

\* The elements a source yields.
SourceSeq(s) ==
    mo_sources[s].items \o
        (IF mo_sources[s].end = "nokey" THEN <<NoKey>> ELSE <<>>)

\* key_fn(item) raises (the key of test_merge_ordered_propagates_key_errors).
KeyThrows(item) == item = NoKey

\* key_fn(item): the value of the key field.
KeyFn(item) == item

\* A heap ordered by (key, insertion number): the source index is left out.
EntryLess_NoSourceIndex(a, b) ==
    \/ a.key < b.key
    \/ a.key = b.key /\ a.order < b.order

\* The order of the heap's tuples (key, source_index, order, item): Python
\* compares tuples component by component.
EntryLess(a, b) ==
    \/ a.key < b.key
    \/ a.key = b.key /\ a.source_index < b.source_index
    \/ a.key = b.key /\ a.source_index = b.source_index /\ a.order < b.order

\* A pop that returns the oldest entry, as a FIFO queue would.
HeapMin_Oldest(h) == CHOOSE e \in h : \A o \in h : e.order <= o.order

\* heapq.heappop(heap): the least entry.
HeapMin(h) == CHOOSE e \in h : \A o \in h \ {e} : EntryLess(e, o)

\* The runs explored: at most one source ends otherwise than by exhaustion.
AtMostOneFaulty(srcs) ==
    \A s, t \in DOMAIN srcs :
        s # t => (srcs[s].end = "StopAsyncIteration"
                  \/ srcs[t].end = "StopAsyncIteration")

OrderedIdle ==
    /\ mo_sources = <<>>
    /\ iterators = <<>>
    /\ mo_asked = <<>>
    /\ iter_state = <<>>
    /\ heap = {}
    /\ order_counter = 0
    /\ source_index = 0
    /\ mo_pc = "unused"
    /\ mo_out = <<>>
    /\ mo_error = "None"
    /\ mo_pulls = 0
    /\ mo_extra = 0

\* merge_ordered(*others, key=...) builds the generator and runs nothing.
OrderedInit ==
    /\ \E n \in 1..MoMaxSources :
           mo_sources \in [1..n -> [items : SortedSeqs, end : SourceEnds]]
    /\ AtMostOneFaulty(mo_sources)
    /\ iterators = [s \in MoSources |-> 0]
    /\ mo_asked = [s \in MoSources |-> 0]
    /\ iter_state = [s \in MoSources |-> "live"]
    /\ heap = {}
    /\ order_counter = 0
    /\ source_index = 0
    /\ mo_pc = "unstarted"
    /\ mo_out = <<>>
    /\ mo_error = "None"
    /\ mo_pulls = 0
    /\ mo_extra = 0

\* The first pull enters the generator: lines 204-220, then the loop of
\* line 222 at the first source.
MoFirstPull ==
    /\ mo_pc = "unstarted"
    /\ mo_pc' = "init"
    /\ source_index' = 1
    /\ mo_pulls' = mo_pulls + 1
    /\ UNCHANGED mo_asked
    /\ UNCHANGED <<mo_sources, iterators, iter_state, heap, order_counter,
                   mo_out, mo_error>>
    /\ UNCHANGED <<mo_extra, otherThanOrdered>>

\* A merge that takes a source's failure for its exhaustion.
AdvanceOutcome_FailureAsEnd(s) ==
    IF iterators[s] < Len(SourceSeq(s))
    THEN IF KeyThrows(SourceSeq(s)[iterators[s] + 1]) THEN "KeyError" ELSE "push"
    ELSE "StopAsyncIteration"

\* What `await anext(iterator)` and the heappush after it come to for source
\* s (lines 223-230 and 236-248): the source's failure, its exhaustion, a
\* KeyError of key_fn, or a push.
AdvanceOutcome(s) ==
    IF iterators[s] < Len(SourceSeq(s))
    THEN IF KeyThrows(SourceSeq(s)[iterators[s] + 1]) THEN "KeyError" ELSE "push"
    ELSE IF mo_sources[s].end = "boom" THEN "boom"
    ELSE "StopAsyncIteration"

\* Lines 223-230 and 236-248 for source s; `after` is where the generator
\* goes on when nothing was raised.
Advance(s, after) ==
    LET outcome == AdvanceOutcome(s)
        item == SourceSeq(s)[iterators[s] + 1]
    IN  /\ iterators[s] < Len(SourceSeq(s)) =>
               iterators' = [iterators EXCEPT ![s] = @ + 1]
        /\ ~(iterators[s] < Len(SourceSeq(s))) => UNCHANGED iterators
        /\ mo_asked' = [mo_asked EXCEPT ![s] = @ + 1]
        /\ iter_state' =
               [iter_state EXCEPT ![s] =
                   IF iterators[s] < Len(SourceSeq(s)) THEN @
                   ELSE IF mo_sources[s].end = "boom" THEN "failed"
                   ELSE "exhausted"]
        /\ IF outcome = "push"
           THEN /\ heap' = heap \cup {[key |-> KeyFn(item), source_index |-> s,
                                       order |-> order_counter, item |-> item]}
                /\ order_counter' = order_counter + 1
           ELSE UNCHANGED <<heap, order_counter>>
        /\ IF outcome \in {"boom", "KeyError"}
           THEN mo_error' = outcome /\ mo_pc' = "raised"
           ELSE mo_error' = mo_error /\ mo_pc' = after

\* Lines 222-230: the initial element of the next source.
MoInitAdvance ==
    /\ mo_pc = "init"
    /\ source_index <= Len(mo_sources)
    /\ Advance(source_index, "init")
    /\ source_index' = source_index + 1
    /\ UNCHANGED <<mo_sources, mo_out, mo_pulls>>
    /\ UNCHANGED <<mo_extra, otherThanOrdered>>

\* Line 222: every source was asked; the main loop begins.
MoInitDone ==
    /\ mo_pc = "init"
    /\ source_index > Len(mo_sources)
    /\ mo_pc' = "loop"
    /\ UNCHANGED mo_asked
    /\ UNCHANGED <<mo_sources, iterators, iter_state, heap, order_counter,
                   source_index, mo_out, mo_error, mo_pulls>>
    /\ UNCHANGED <<mo_extra, otherThanOrdered>>

\* Lines 232-234: the least entry is popped and its element yielded.
MoYield ==
    /\ mo_pc = "loop"
    /\ heap # {}
    /\ LET e == HeapMin(heap) IN
        /\ heap' = heap \ {e}
        /\ source_index' = e.source_index
        /\ mo_out' = Append(mo_out, [item |-> e.item, src |-> e.source_index])
    /\ mo_pc' = "yielded"
    /\ UNCHANGED mo_asked
    /\ UNCHANGED <<mo_sources, iterators, iter_state, order_counter, mo_error,
                   mo_pulls>>
    /\ UNCHANGED <<mo_extra, otherThanOrdered>>

\* Line 232 with an empty heap: the generator returns.
MoReturn ==
    /\ mo_pc = "loop"
    /\ heap = {}
    /\ mo_pc' = "exhausted"
    /\ UNCHANGED mo_asked
    /\ UNCHANGED <<mo_sources, iterators, iter_state, heap, order_counter,
                   source_index, mo_out, mo_error, mo_pulls>>
    /\ UNCHANGED <<mo_extra, otherThanOrdered>>

\* A merge that advances its first source after every yield, whichever
\* source the yielded element came from.
MoNextPull_AdvancesFirst ==
    /\ mo_pc = "yielded"
    /\ mo_pulls' = mo_pulls + 1
    /\ Advance(1, "loop")
    /\ UNCHANGED <<mo_sources, source_index, mo_out>>
    /\ UNCHANGED <<mo_extra, otherThanOrdered>>

\* Lines 235-248: the next pull resumes after the yield and advances the
\* source the yielded element came from.
MoNextPull ==
    /\ mo_pc = "yielded"
    /\ mo_pulls' = mo_pulls + 1
    /\ Advance(source_index, "loop")
    /\ UNCHANGED <<mo_sources, source_index, mo_out>>
    /\ UNCHANGED <<mo_extra, otherThanOrdered>>

\* A pull on the generator after it returned or raised: a finished async
\* generator answers StopAsyncIteration and runs no code.
MoPullFinished ==
    /\ mo_pc \in {"raised", "exhausted"}
    /\ mo_extra < MaxExtraPulls
    /\ mo_pulls' = mo_pulls + 1
    /\ mo_extra' = mo_extra + 1
    /\ UNCHANGED mo_asked
    /\ UNCHANGED <<mo_sources, iterators, iter_state, heap, order_counter,
                   source_index, mo_pc, mo_out, mo_error>>
    /\ UNCHANGED otherThanOrdered

OrderedNext ==
    \/ MoFirstPull
    \/ MoInitAdvance
    \/ MoInitDone
    \/ MoYield
    \/ MoReturn
    \/ MoNextPull
    \/ MoPullFinished

\* ------------------------------------------------------ zip and zip_longest
ZipInputs == 1..Len(zip_inputs)

\* The k-th element of input i, and the value that stands for a missing one
\* (line 166: fillvalue, which is no element of any input).
Element(i, k) == [src |-> i, k |-> k]
fillvalue == [src |-> 0, k |-> 0]

ZipIdle ==
    /\ zip_mode = "zip"
    /\ zip_inputs = <<>>
    /\ zip_asked = <<>>
    /\ finished = <<>>
    /\ items = <<>>
    /\ all_finished = TRUE
    /\ zip_index = 0
    /\ zip_round = 0
    /\ zip_pc = "unused"
    /\ zip_out = <<>>
    /\ zip_error = "None"
    /\ zip_extra = 0

\* Lines 149 and 169-170: the generator is built over its inputs and has not
\* run yet.
ZipInit ==
    /\ zip_mode \in {"zip", "zip_longest"}
    /\ \E n \in 1..ZipMaxInputs :
           zip_inputs \in [1..n -> [len : 0..ZipMaxLen, fails : BOOLEAN]]
    /\ zip_asked = [i \in ZipInputs |-> 0]
    /\ finished = [i \in ZipInputs |-> FALSE]
    /\ items = <<>>
    /\ all_finished = TRUE
    /\ zip_index = 0
    /\ zip_round = 0
    /\ zip_pc = "unstarted"
    /\ zip_out = <<>>
    /\ zip_error = "None"
    /\ zip_extra = 0

\* What anext answers on input i: its next element, its failure once the
\* elements are used up, and StopAsyncIteration from then on.
InputNext(i) ==
    IF zip_asked[i] < zip_inputs[i].len THEN "item"
    ELSE IF zip_inputs[i].fails /\ zip_asked[i] = zip_inputs[i].len THEN "boom"
    ELSE "StopAsyncIteration"

\* Lines 151-153 and 172-176: a pull of the consumer starts the generator, or
\* resumes it after a yield, and a round begins with an empty tuple.
ZipPull ==
    /\ zip_pc \in {"unstarted", "yielded"}
    /\ zip_pc' = "round"
    /\ items' = <<>>
    /\ all_finished' = TRUE
    /\ zip_index' = 1
    /\ zip_round' = zip_round + 1
    /\ UNCHANGED <<zip_mode, zip_inputs, zip_asked, finished, zip_out,
                   zip_error, zip_extra, otherThanZip>>

\* Lines 155 and 158: the input answers with an element, which joins the tuple.
ZipItem ==
    /\ zip_mode = "zip"
    /\ zip_pc = "round"
    /\ zip_index \in ZipInputs
    /\ InputNext(zip_index) = "item"
    /\ zip_asked' = [zip_asked EXCEPT ![zip_index] = @ + 1]
    /\ items' = Append(items, Element(zip_index, zip_asked[zip_index] + 1))
    /\ zip_index' = zip_index + 1
    /\ UNCHANGED <<zip_mode, zip_inputs, finished, all_finished, zip_round,
                   zip_pc, zip_out, zip_error, zip_extra, otherThanZip>>

\* A zip that yields what the round has gathered when an input is exhausted.
ZipExhausted_YieldsPartial ==
    /\ zip_mode = "zip"
    /\ zip_pc = "round"
    /\ zip_index \in ZipInputs
    /\ InputNext(zip_index) = "StopAsyncIteration"
    /\ zip_asked' = [zip_asked EXCEPT ![zip_index] = @ + 1]
    /\ zip_out' = Append(zip_out, items)
    /\ zip_pc' = "returned"
    /\ UNCHANGED <<zip_mode, zip_inputs, finished, items, all_finished,
                   zip_index, zip_round, zip_error, zip_extra, otherThanZip>>

\* A zip that asks the rest of the inputs of the round before it returns.
ZipExhausted_FinishesRound ==
    /\ zip_mode = "zip"
    /\ zip_pc = "round"
    /\ zip_index \in ZipInputs
    /\ InputNext(zip_index) = "StopAsyncIteration"
    /\ zip_asked' = [i \in ZipInputs |->
                        IF i >= zip_index THEN zip_asked[i] + 1
                        ELSE zip_asked[i]]
    /\ zip_pc' = "returned"
    /\ UNCHANGED <<zip_mode, zip_inputs, finished, items, all_finished,
                   zip_index, zip_round, zip_out, zip_error, zip_extra,
                   otherThanZip>>

\* Lines 156-157: the input is exhausted; the generator returns, and what the
\* round has gathered so far is dropped.
ZipExhausted ==
    /\ zip_mode = "zip"
    /\ zip_pc = "round"
    /\ zip_index \in ZipInputs
    /\ InputNext(zip_index) = "StopAsyncIteration"
    /\ zip_asked' = [zip_asked EXCEPT ![zip_index] = @ + 1]
    /\ zip_pc' = "returned"
    /\ UNCHANGED <<zip_mode, zip_inputs, finished, items, all_finished,
                   zip_index, zip_round, zip_out, zip_error, zip_extra,
                   otherThanZip>>

\* Line 155: the input fails; nothing catches the exception, so it leaves the
\* generator.
ZipFailed ==
    /\ zip_mode = "zip"
    /\ zip_pc = "round"
    /\ zip_index \in ZipInputs
    /\ InputNext(zip_index) = "boom"
    /\ zip_asked' = [zip_asked EXCEPT ![zip_index] = @ + 1]
    /\ zip_pc' = "raised"
    /\ zip_error' = "boom"
    /\ UNCHANGED <<zip_mode, zip_inputs, finished, items, all_finished,
                   zip_index, zip_round, zip_out, zip_extra, otherThanZip>>

\* Line 159: every input gave an element; the tuple is yielded.
ZipYield ==
    /\ zip_mode = "zip"
    /\ zip_pc = "round"
    /\ zip_index = Len(zip_inputs) + 1
    /\ zip_out' = Append(zip_out, items)
    /\ zip_pc' = "yielded"
    /\ UNCHANGED <<zip_mode, zip_inputs, zip_asked, finished, items,
                   all_finished, zip_index, zip_round, zip_error, zip_extra,
                   otherThanZip>>

\* A zip_longest that keeps no record of the finished inputs and asks them
\* again in every round.
ZlSkipFinished_AsksAgain ==
    /\ zip_mode = "zip_longest"
    /\ zip_pc = "round"
    /\ zip_index \in ZipInputs
    /\ finished[zip_index]
    /\ zip_asked' = [zip_asked EXCEPT ![zip_index] = @ + 1]
    /\ items' = Append(items, fillvalue)
    /\ zip_index' = zip_index + 1
    /\ UNCHANGED <<zip_mode, zip_inputs, finished, all_finished, zip_round,
                   zip_pc, zip_out, zip_error, zip_extra, otherThanZip>>

\* Lines 177-179: an input that has finished is not asked again; its position
\* takes the fill value.
ZlSkipFinished ==
    /\ zip_mode = "zip_longest"
    /\ zip_pc = "round"
    /\ zip_index \in ZipInputs
    /\ finished[zip_index]
    /\ items' = Append(items, fillvalue)
    /\ zip_index' = zip_index + 1
    /\ UNCHANGED <<zip_mode, zip_inputs, zip_asked, finished, all_finished,
                   zip_round, zip_pc, zip_out, zip_error, zip_extra,
                   otherThanZip>>

\* Lines 182 and 188-189: the input answers with an element.
ZlItem ==
    /\ zip_mode = "zip_longest"
    /\ zip_pc = "round"
    /\ zip_index \in ZipInputs
    /\ ~finished[zip_index]
    /\ InputNext(zip_index) = "item"
    /\ zip_asked' = [zip_asked EXCEPT ![zip_index] = @ + 1]
    /\ items' = Append(items, Element(zip_index, zip_asked[zip_index] + 1))
    /\ all_finished' = FALSE
    /\ zip_index' = zip_index + 1
    /\ UNCHANGED <<zip_mode, zip_inputs, finished, zip_round, zip_pc,
                   zip_out, zip_error, zip_extra, otherThanZip>>

\* A zip_longest that returns at the first exhausted input, as zip does.
ZlExhausted_Returns ==
    /\ zip_mode = "zip_longest"
    /\ zip_pc = "round"
    /\ zip_index \in ZipInputs
    /\ ~finished[zip_index]
    /\ InputNext(zip_index) = "StopAsyncIteration"
    /\ zip_asked' = [zip_asked EXCEPT ![zip_index] = @ + 1]
    /\ zip_pc' = "returned"
    /\ UNCHANGED <<zip_mode, zip_inputs, finished, items, all_finished,
                   zip_index, zip_round, zip_out, zip_error, zip_extra,
                   otherThanZip>>

\* Lines 183-186: the input is exhausted; it is marked finished and its
\* position takes the fill value.
ZlExhausted ==
    /\ zip_mode = "zip_longest"
    /\ zip_pc = "round"
    /\ zip_index \in ZipInputs
    /\ ~finished[zip_index]
    /\ InputNext(zip_index) = "StopAsyncIteration"
    /\ zip_asked' = [zip_asked EXCEPT ![zip_index] = @ + 1]
    /\ finished' = [finished EXCEPT ![zip_index] = TRUE]
    /\ items' = Append(items, fillvalue)
    /\ zip_index' = zip_index + 1
    /\ UNCHANGED <<zip_mode, zip_inputs, all_finished, zip_round, zip_pc,
                   zip_out, zip_error, zip_extra, otherThanZip>>

\* A zip_longest that takes an input's failure for its exhaustion.
ZlFailed_AsExhausted ==
    /\ zip_mode = "zip_longest"
    /\ zip_pc = "round"
    /\ zip_index \in ZipInputs
    /\ ~finished[zip_index]
    /\ InputNext(zip_index) = "boom"
    /\ zip_asked' = [zip_asked EXCEPT ![zip_index] = @ + 1]
    /\ finished' = [finished EXCEPT ![zip_index] = TRUE]
    /\ items' = Append(items, fillvalue)
    /\ zip_index' = zip_index + 1
    /\ UNCHANGED <<zip_mode, zip_inputs, all_finished, zip_round, zip_pc,
                   zip_out, zip_error, zip_extra, otherThanZip>>

\* Line 182: the input fails; only StopAsyncIteration is caught, so the
\* exception leaves the generator.
ZlFailed ==
    /\ zip_mode = "zip_longest"
    /\ zip_pc = "round"
    /\ zip_index \in ZipInputs
    /\ ~finished[zip_index]
    /\ InputNext(zip_index) = "boom"
    /\ zip_asked' = [zip_asked EXCEPT ![zip_index] = @ + 1]
    /\ zip_pc' = "raised"
    /\ zip_error' = "boom"
    /\ UNCHANGED <<zip_mode, zip_inputs, finished, items, all_finished,
                   zip_index, zip_round, zip_out, zip_extra, otherThanZip>>

\* Lines 191-192: a round in which no input gave an element ends the
\* generator.
ZlReturn ==
    /\ zip_mode = "zip_longest"
    /\ zip_pc = "round"
    /\ zip_index = Len(zip_inputs) + 1
    /\ all_finished
    /\ zip_pc' = "returned"
    /\ UNCHANGED <<zip_mode, zip_inputs, zip_asked, finished, items,
                   all_finished, zip_index, zip_round, zip_out, zip_error,
                   zip_extra, otherThanZip>>

\* Line 194: otherwise the tuple is yielded.
ZlYield ==
    /\ zip_mode = "zip_longest"
    /\ zip_pc = "round"
    /\ zip_index = Len(zip_inputs) + 1
    /\ ~all_finished
    /\ zip_out' = Append(zip_out, items)
    /\ zip_pc' = "yielded"
    /\ UNCHANGED <<zip_mode, zip_inputs, zip_asked, finished, items,
                   all_finished, zip_index, zip_round, zip_error, zip_extra,
                   otherThanZip>>

\* A pull on the generator after it returned or raised: a finished async
\* generator answers StopAsyncIteration and runs no code.
ZipPullFinished ==
    /\ zip_pc \in {"returned", "raised"}
    /\ zip_extra < MaxExtraPulls
    /\ zip_extra' = zip_extra + 1
    /\ UNCHANGED <<zip_mode, zip_inputs, zip_asked, finished, items,
                   all_finished, zip_index, zip_round, zip_pc, zip_out,
                   zip_error, otherThanZip>>

ZipNext ==
    \/ ZipPull
    \/ ZipItem
    \/ ZipExhausted
    \/ ZipFailed
    \/ ZipYield
    \/ ZlSkipFinished
    \/ ZlItem
    \/ ZlExhausted
    \/ ZlFailed
    \/ ZlReturn
    \/ ZlYield
    \/ ZipPullFinished


\* ------------------------------------------------------------------- chunk
\* What anext answers on a source that has been asked `asked` times: its next
\* element, its failure once the elements are used up, and StopAsyncIteration
\* from then on.
Answer(src, asked) ==
    IF asked < src.len THEN "item"
    ELSE IF src.fails /\ asked = src.len THEN "boom"
    ELSE "StopAsyncIteration"

ChunkIdle ==
    /\ chunk_source = [len |-> 0, fails |-> FALSE]
    /\ size = 0
    /\ chunk_asked = 0
    /\ chunk = <<>>
    /\ chunk_item = 0
    /\ chunk_pc = "unused"
    /\ chunk_out = <<>>
    /\ chunk_error = "None"
    /\ chunk_extra = 0

\* Lines 260-272: chunk(size) takes any integer and builds the generator,
\* which has not run yet.
ChunkInit ==
    /\ chunk_source \in [len : 0..ChunkMaxLen, fails : BOOLEAN]
    /\ size \in -1..ChunkMaxSize
    /\ chunk_asked = 0
    /\ chunk = <<>>
    /\ chunk_item = 0
    /\ chunk_pc = "unstarted"
    /\ chunk_out = <<>>
    /\ chunk_error = "None"
    /\ chunk_extra = 0

\* Line 264: the batch being filled takes one more element.
HasRoom_OffByOne == Len(chunk) <= size

HasRoom == Len(chunk) < size

\* Line 262: the first pull starts the generator with an empty batch.
ChunkPull ==
    /\ chunk_pc = "unstarted"
    /\ chunk' = <<>>
    /\ chunk_pc' = "loop"
    /\ UNCHANGED <<chunk_source, size, chunk_asked, chunk_item, chunk_out,
                   chunk_error, chunk_extra, otherThanChunk>>

\* Lines 263-265: the upstream gives an element and the batch has room.
ChunkAppend ==
    /\ chunk_pc = "loop"
    /\ Answer(chunk_source, chunk_asked) = "item"
    /\ HasRoom
    /\ chunk_asked' = chunk_asked + 1
    /\ chunk' = Append(chunk, chunk_asked + 1)
    /\ UNCHANGED <<chunk_source, size, chunk_item, chunk_pc, chunk_out,
                   chunk_error, chunk_extra, otherThanChunk>>

\* Lines 266-267: the upstream gives an element and the batch has no room: a
\* copy of the batch is yielded, the element is held.
ChunkYield ==
    /\ chunk_pc = "loop"
    /\ Answer(chunk_source, chunk_asked) = "item"
    /\ ~HasRoom
    /\ chunk_asked' = chunk_asked + 1
    /\ chunk_item' = chunk_asked + 1
    /\ chunk_out' = Append(chunk_out, chunk)
    /\ chunk_pc' = "yielded"
    /\ UNCHANGED <<chunk_source, size, chunk, chunk_error, chunk_extra,
                   otherThanChunk>>

\* Line 268: the next pull resumes after the yield; the held element opens the
\* next batch.
ChunkResume ==
    /\ chunk_pc = "yielded"
    /\ chunk' = <<chunk_item>>
    /\ chunk_pc' = "loop"
    /\ UNCHANGED <<chunk_source, size, chunk_asked, chunk_item, chunk_out,
                   chunk_error, chunk_extra, otherThanChunk>>

\* Lines 269-270: the upstream is exhausted and the batch is not empty: a copy
\* of it is yielded.
ChunkTail ==
    /\ chunk_pc = "loop"
    /\ Answer(chunk_source, chunk_asked) = "StopAsyncIteration"
    /\ chunk # <<>>
    /\ chunk_asked' = chunk_asked + 1
    /\ chunk_out' = Append(chunk_out, chunk)
    /\ chunk_pc' = "yielded_tail"
    /\ UNCHANGED <<chunk_source, size, chunk, chunk_item, chunk_error,
                   chunk_extra, otherThanChunk>>

\* Line 269: the upstream is exhausted and the batch is empty: the generator
\* returns.
ChunkReturn ==
    /\ chunk_pc = "loop"
    /\ Answer(chunk_source, chunk_asked) = "StopAsyncIteration"
    /\ chunk = <<>>
    /\ chunk_asked' = chunk_asked + 1
    /\ chunk_pc' = "returned"
    /\ UNCHANGED <<chunk_source, size, chunk, chunk_item, chunk_out,
                   chunk_error, chunk_extra, otherThanChunk>>

\* Line 270: the pull after the last batch finds the end of the generator.
ChunkResumeTail ==
    /\ chunk_pc = "yielded_tail"
    /\ chunk_pc' = "returned"
    /\ UNCHANGED <<chunk_source, size, chunk_asked, chunk, chunk_item,
                   chunk_out, chunk_error, chunk_extra, otherThanChunk>>

\* Line 263: the upstream fails; the exception leaves the generator.
ChunkFailed ==
    /\ chunk_pc = "loop"
    /\ Answer(chunk_source, chunk_asked) = "boom"
    /\ chunk_asked' = chunk_asked + 1
    /\ chunk_pc' = "raised"
    /\ chunk_error' = "boom"
    /\ UNCHANGED <<chunk_source, size, chunk, chunk_item, chunk_out,
                   chunk_extra, otherThanChunk>>

\* A pull on the generator after it returned or raised: a finished async
\* generator answers StopAsyncIteration and runs no code.
ChunkPullFinished ==
    /\ chunk_pc \in {"returned", "raised"}
    /\ chunk_extra < MaxExtraPulls
    /\ chunk_extra' = chunk_extra + 1
    /\ UNCHANGED <<chunk_source, size, chunk_asked, chunk, chunk_item,
                   chunk_pc, chunk_out, chunk_error, otherThanChunk>>

ChunkNext ==
    \/ ChunkPull
    \/ ChunkAppend
    \/ ChunkYield
    \/ ChunkResume
    \/ ChunkTail
    \/ ChunkReturn
    \/ ChunkResumeTail
    \/ ChunkFailed
    \/ ChunkPullFinished

\* ------------------------------------------------------------------ window
\* Every variable of a window but the upstream and the interval is a function
\* of include_partial: window(interval, include_partial=True) and
\* window(interval, include_partial=False) run side by side, each over an
\* upstream of its own with the same elements.
WindowIdle ==
    /\ win_source = [stamps |-> <<>>, fails |-> FALSE]
    /\ interval = 0
    /\ win_asked = <<>>
    /\ win_chunk = <<>>
    /\ ts = <<>>
    /\ win_item = <<>>
    /\ win_pc = <<>>
    /\ win_out = <<>>
    /\ win_error = <<>>
    /\ win_extra = <<>>

\* Lines 274-300: window(interval) takes any integer and builds the generator,
\* which has not run yet.
WindowInit ==
    /\ win_source \in [stamps : SeqsUpTo(0..WinMaxStamp, WinMaxLen),
                       fails : BOOLEAN]
    /\ interval \in -1..WinMaxInterval
    /\ win_asked = [p \in BOOLEAN |-> 0]
    /\ win_chunk = [p \in BOOLEAN |-> <<>>]
    /\ ts = [p \in BOOLEAN |-> <<>>]
    /\ win_item = [p \in BOOLEAN |-> 0]
    /\ win_pc = [p \in BOOLEAN |-> "unstarted"]
    /\ win_out = [p \in BOOLEAN |-> <<>>]
    /\ win_error = [p \in BOOLEAN |-> "None"]
    /\ win_extra = [p \in BOOLEAN |-> 0]

\* What anext answers on the upstream of a window.
WinAnswer(p) ==
    Answer([len |-> Len(win_source.stamps), fails |-> win_source.fails],
           win_asked[p])

\* Line 287: get_timestamp(item).
Stamp(item) == win_source.stamps[item]

\* Lines 288-289: ts once the element `item` has been looked at.
WindowStart(p, item) == IF ts[p] = <<>> THEN Stamp(item) ELSE ts[p][1]

\* Line 290: the element falls into the open window.
InWindow_Strict(p, item) == WindowStart(p, item) + interval > Stamp(item)

InWindow(p, item) == WindowStart(p, item) + interval >= Stamp(item)

\* Line 297: the batch still open at the end of the upstream is emitted.
EmitsPartial_Always(include_partial) == win_chunk[include_partial] # <<>>

EmitsPartial(include_partial) ==
    include_partial /\ win_chunk[include_partial] # <<>>

\* Lines 284-285: the first pull starts the generator.
WinPull(p) ==
    /\ win_pc[p] = "unstarted"
    /\ win_chunk' = [win_chunk EXCEPT ![p] = <<>>]
    /\ ts' = [ts EXCEPT ![p] = <<>>]
    /\ win_pc' = [win_pc EXCEPT ![p] = "loop"]
    /\ UNCHANGED <<win_source, interval, win_asked, win_item, win_out,
                   win_error, win_extra, otherThanWindow>>

\* Lines 286-291: the upstream gives an element that falls into the open
\* window.
WinAppend(p) ==
    /\ win_pc[p] = "loop"
    /\ WinAnswer(p) = "item"
    /\ LET item == win_asked[p] + 1
       IN  /\ InWindow(p, item)
           /\ ts' = [ts EXCEPT ![p] = <<WindowStart(p, item)>>]
           /\ win_chunk' = [win_chunk EXCEPT ![p] = Append(@, item)]
    /\ win_asked' = [win_asked EXCEPT ![p] = @ + 1]
    /\ UNCHANGED <<win_source, interval, win_item, win_pc, win_out,
                   win_error, win_extra, otherThanWindow>>

\* Lines 292-294: the element falls beyond the open window, whose batch is not
\* empty: a copy of the batch is yielded, the element is held.
WinFlush(p) ==
    /\ win_pc[p] = "loop"
    /\ WinAnswer(p) = "item"
    /\ LET item == win_asked[p] + 1
       IN  /\ ~InWindow(p, item)
           /\ win_chunk[p] # <<>>
           /\ ts' = [ts EXCEPT ![p] = <<WindowStart(p, item)>>]
           /\ win_item' = [win_item EXCEPT ![p] = item]
    /\ win_asked' = [win_asked EXCEPT ![p] = @ + 1]
    /\ win_out' = [win_out EXCEPT ![p] = Append(@, win_chunk[p])]
    /\ win_pc' = [win_pc EXCEPT ![p] = "yielded"]
    /\ UNCHANGED <<win_source, interval, win_chunk, win_error, win_extra,
                   otherThanWindow>>

\* Lines 295-296: the next pull resumes after the yield; the held element
\* opens the next window.
WinResume(p) ==
    /\ win_pc[p] = "yielded"
    /\ win_chunk' = [win_chunk EXCEPT ![p] = <<win_item[p]>>]
    /\ ts' = [ts EXCEPT ![p] = <<Stamp(win_item[p])>>]
    /\ win_pc' = [win_pc EXCEPT ![p] = "loop"]
    /\ UNCHANGED <<win_source, interval, win_asked, win_item, win_out,
                   win_error, win_extra, otherThanWindow>>

\* Lines 292-296: the element falls beyond the open window, whose batch is
\* empty: nothing is yielded and the element opens the next window.
WinReopen(p) ==
    /\ win_pc[p] = "loop"
    /\ WinAnswer(p) = "item"
    /\ LET item == win_asked[p] + 1
       IN  /\ ~InWindow(p, item)
           /\ win_chunk[p] = <<>>
           /\ win_chunk' = [win_chunk EXCEPT ![p] = <<item>>]
           /\ ts' = [ts EXCEPT ![p] = <<Stamp(item)>>]
    /\ win_asked' = [win_asked EXCEPT ![p] = @ + 1]
    /\ UNCHANGED <<win_source, interval, win_item, win_pc, win_out,
                   win_error, win_extra, otherThanWindow>>

\* Lines 297-298: the upstream is exhausted and the open batch is emitted.
WinTail(p) ==
    /\ win_pc[p] = "loop"
    /\ WinAnswer(p) = "StopAsyncIteration"
    /\ EmitsPartial(p)
    /\ win_asked' = [win_asked EXCEPT ![p] = @ + 1]
    /\ win_out' = [win_out EXCEPT ![p] = Append(@, win_chunk[p])]
    /\ win_pc' = [win_pc EXCEPT ![p] = "yielded_tail"]
    /\ UNCHANGED <<win_source, interval, win_chunk, ts, win_item, win_error,
                   win_extra, otherThanWindow>>

\* Line 297: the upstream is exhausted and nothing is emitted: the generator
\* returns.
WinReturn(p) ==
    /\ win_pc[p] = "loop"
    /\ WinAnswer(p) = "StopAsyncIteration"
    /\ ~EmitsPartial(p)
    /\ win_asked' = [win_asked EXCEPT ![p] = @ + 1]
    /\ win_pc' = [win_pc EXCEPT ![p] = "returned"]
    /\ UNCHANGED <<win_source, interval, win_chunk, ts, win_item, win_out,
                   win_error, win_extra, otherThanWindow>>

\* Line 298: the pull after the last batch finds the end of the generator.
WinResumeTail(p) ==
    /\ win_pc[p] = "yielded_tail"
    /\ win_pc' = [win_pc EXCEPT ![p] = "returned"]
    /\ UNCHANGED <<win_source, interval, win_asked, win_chunk, ts, win_item,
                   win_out, win_error, win_extra, otherThanWindow>>

\* Line 286: the upstream fails; the exception leaves the generator.
WinFailed(p) ==
    /\ win_pc[p] = "loop"
    /\ WinAnswer(p) = "boom"
    /\ win_asked' = [win_asked EXCEPT ![p] = @ + 1]
    /\ win_pc' = [win_pc EXCEPT ![p] = "raised"]
    /\ win_error' = [win_error EXCEPT ![p] = "boom"]
    /\ UNCHANGED <<win_source, interval, win_chunk, ts, win_item, win_out,
                   win_extra, otherThanWindow>>

\* A pull on the generator after it returned or raised: a finished async
\* generator answers StopAsyncIteration and runs no code.
WinPullFinished(p) ==
    /\ win_pc[p] \in {"returned", "raised"}
    /\ win_extra[p] < MaxExtraPulls
    /\ win_extra' = [win_extra EXCEPT ![p] = @ + 1]
    /\ UNCHANGED <<win_source, interval, win_asked, win_chunk, ts, win_item,
                   win_pc, win_out, win_error, otherThanWindow>>

WindowNext ==
    \/ \E include_partial \in BOOLEAN : WinPull(include_partial)
    \/ \E include_partial \in BOOLEAN : WinAppend(include_partial)
    \/ \E include_partial \in BOOLEAN : WinFlush(include_partial)
    \/ \E include_partial \in BOOLEAN : WinResume(include_partial)
    \/ \E include_partial \in BOOLEAN : WinReopen(include_partial)
    \/ \E include_partial \in BOOLEAN : WinTail(include_partial)
    \/ \E include_partial \in BOOLEAN : WinReturn(include_partial)
    \/ \E include_partial \in BOOLEAN : WinResumeTail(include_partial)
    \/ \E include_partial \in BOOLEAN : WinFailed(include_partial)
    \/ \E include_partial \in BOOLEAN : WinPullFinished(include_partial)

\* ---------------------------------------------------------- sliding_window
\* The elements an upstream of a sliding_window may hold: None, or an element
\* with a timestamp.
SwItems == {<<>>} \cup {<<t>> : t \in 0..SwMaxStamp}

SlidingIdle ==
    /\ sw_source = [items |-> <<>>, fails |-> FALSE]
    /\ sw_size = 0
    /\ advance = 0
    /\ sw_partial = TRUE
    /\ sw_asked = 0
    /\ windows = <<>>
    /\ last_start = <<>>
    /\ next_windows = <<>>
    /\ sw_index = 0
    /\ sw_item = 0
    /\ sw_pc = "unused"
    /\ sw_out = <<>>
    /\ sw_error = "None"
    /\ sw_extra = 0

\* Lines 302-309: sliding_window is about to be called with some size,
\* advance and include_partial on a stream over the upstream.
SlidingInit ==
    /\ sw_source \in [items : SeqsUpTo(SwItems, SwMaxLen), fails : BOOLEAN]
    /\ sw_size \in -1..SwMaxSize
    /\ advance \in -1..SwMaxAdvance
    /\ sw_partial \in BOOLEAN
    /\ sw_asked = 0
    /\ windows = <<>>
    /\ last_start = <<>>
    /\ next_windows = <<>>
    /\ sw_index = 0
    /\ sw_item = 0
    /\ sw_pc = "uncalled"
    /\ sw_out = <<>>
    /\ sw_error = "None"
    /\ sw_extra = 0

\* Lines 310-313: the arguments the call rejects.
Rejected_SizeZero == sw_size < 0 \/ advance <= 0

Rejected == sw_size <= 0 \/ advance <= 0

\* Lines 310-313: the call raises ValueError.
SwCallRejected ==
    /\ sw_pc = "uncalled"
    /\ Rejected
    /\ sw_pc' = "ValueError"
    /\ sw_error' = "ValueError"
    /\ UNCHANGED <<sw_source, sw_size, advance, sw_partial, sw_asked, windows,
                   last_start, next_windows, sw_index, sw_item, sw_out,
                   sw_extra, otherThanSliding>>

\* Lines 315-353: the call returns the stream over the generator, which has
\* not run yet.
SwCallBuilt ==
    /\ sw_pc = "uncalled"
    /\ ~Rejected
    /\ sw_pc' = "unstarted"
    /\ UNCHANGED <<sw_source, sw_size, advance, sw_partial, sw_asked, windows,
                   last_start, next_windows, sw_index, sw_item, sw_out,
                   sw_error, sw_extra, otherThanSliding>>

\* What anext answers on the upstream of a sliding_window.
SwAnswer ==
    Answer([len |-> Len(sw_source.items), fails |-> sw_source.fails], sw_asked)

\* Line 325: get_timestamp(item).
SwStamp(item) == sw_source.items[item][1]

\* Lines 330-332: the starts of the windows the while loop opens.
RECURSIVE Opened(_, _)
Opened(start, timestamp) ==
    IF timestamp - start >= advance
    THEN <<start + advance>> \o Opened(start + advance, timestamp)
    ELSE <<>>

\* Line 338: the window that starts at window_start is over at timestamp.
Expired_Late(timestamp, window_start) == timestamp - window_start > sw_size

Expired(timestamp, window_start) == timestamp - window_start >= sw_size

\* Lines 318-319: the first pull starts the generator.
SwPull ==
    /\ sw_pc = "unstarted"
    /\ windows' = <<>>
    /\ last_start' = <<>>
    /\ sw_pc' = "loop"
    /\ UNCHANGED <<sw_source, sw_size, advance, sw_partial, sw_asked,
                   next_windows, sw_index, sw_item, sw_out, sw_error,
                   sw_extra, otherThanSliding>>

\* Lines 321-323: the upstream gives None, which is passed over.
SwSkipNone ==
    /\ sw_pc = "loop"
    /\ SwAnswer = "item"
    /\ sw_source.items[sw_asked + 1] = <<>>
    /\ sw_asked' = sw_asked + 1
    /\ UNCHANGED <<sw_source, sw_size, advance, sw_partial, windows,
                   last_start, next_windows, sw_index, sw_item, sw_pc,
                   sw_out, sw_error, sw_extra, otherThanSliding>>

\* Lines 325-334: the upstream gives an element; the windows due up to its
\* timestamp are opened and the pass over the open windows begins.
SwArrive ==
    /\ sw_pc = "loop"
    /\ SwAnswer = "item"
    /\ sw_source.items[sw_asked + 1] # <<>>
    /\ LET timestamp == SwStamp(sw_asked + 1)
           starts == IF last_start = <<>> THEN <<timestamp>>
                     ELSE Opened(last_start[1], timestamp)
       IN  /\ windows' = windows \o [k \in 1..Len(starts) |->
                                        [ts |-> starts[k], items |-> <<>>]]
           /\ last_start' = IF starts = <<>> THEN last_start
                            ELSE <<starts[Len(starts)]>>
    /\ sw_asked' = sw_asked + 1
    /\ sw_item' = sw_asked + 1
    /\ next_windows' = <<>>
    /\ sw_index' = 1
    /\ sw_pc' = "scan"
    /\ UNCHANGED <<sw_source, sw_size, advance, sw_partial, sw_out, sw_error,
                   sw_extra, otherThanSliding>>

\* Lines 338-340: the window is over and holds elements: its batch is yielded.
SwCloseEmit ==
    /\ sw_pc = "scan"
    /\ sw_index \in 1..Len(windows)
    /\ Expired(SwStamp(sw_item), windows[sw_index].ts)
    /\ windows[sw_index].items # <<>>
    /\ sw_out' = Append(sw_out, [items |-> windows[sw_index].items,
                                 ts |-> windows[sw_index].ts,
                                 at |-> sw_item])
    /\ sw_pc' = "yielded_scan"
    /\ UNCHANGED <<sw_source, sw_size, advance, sw_partial, sw_asked, windows,
                   last_start, next_windows, sw_index, sw_item, sw_error,
                   sw_extra, otherThanSliding>>

\* Line 341: the next pull resumes after the yield and the window is dropped.
SwResumeScan ==
    /\ sw_pc = "yielded_scan"
    /\ sw_index' = sw_index + 1
    /\ sw_pc' = "scan"
    /\ UNCHANGED <<sw_source, sw_size, advance, sw_partial, sw_asked, windows,
                   last_start, next_windows, sw_item, sw_out, sw_error,
                   sw_extra, otherThanSliding>>

\* A sliding_window that yields the batch of every window that is over, the
\* empty ones too.
SwCloseDrop_Emits ==
    /\ sw_pc = "scan"
    /\ sw_index \in 1..Len(windows)
    /\ Expired(SwStamp(sw_item), windows[sw_index].ts)
    /\ windows[sw_index].items = <<>>
    /\ sw_out' = Append(sw_out, [items |-> windows[sw_index].items,
                                 ts |-> windows[sw_index].ts,
                                 at |-> sw_item])
    /\ sw_pc' = "yielded_scan"
    /\ UNCHANGED <<sw_source, sw_size, advance, sw_partial, sw_asked, windows,
                   last_start, next_windows, sw_index, sw_item, sw_error,
                   sw_extra, otherThanSliding>>

\* Lines 338-341: the window is over and empty: it is dropped, nothing is
\* yielded.
SwCloseDrop ==
    /\ sw_pc = "scan"
    /\ sw_index \in 1..Len(windows)
    /\ Expired(SwStamp(sw_item), windows[sw_index].ts)
    /\ windows[sw_index].items = <<>>
    /\ sw_index' = sw_index + 1
    /\ UNCHANGED <<sw_source, sw_size, advance, sw_partial, sw_asked, windows,
                   last_start, next_windows, sw_item, sw_pc, sw_out,
                   sw_error, sw_extra, otherThanSliding>>

\* Lines 342-343: the window is not over: it takes the element and stays open.
SwKeep ==
    /\ sw_pc = "scan"
    /\ sw_index \in 1..Len(windows)
    /\ ~Expired(SwStamp(sw_item), windows[sw_index].ts)
    /\ next_windows' =
           Append(next_windows,
                  [windows[sw_index] EXCEPT !.items = Append(@, sw_item)])
    /\ sw_index' = sw_index + 1
    /\ UNCHANGED <<sw_source, sw_size, advance, sw_partial, sw_asked, windows,
                   last_start, sw_item, sw_pc, sw_out, sw_error, sw_extra,
                   otherThanSliding>>

\* Line 345: the pass is over; the windows kept are the open windows.
SwScanDone ==
    /\ sw_pc = "scan"
    /\ sw_index = Len(windows) + 1
    /\ windows' = next_windows
    /\ sw_pc' = "loop"
    /\ UNCHANGED <<sw_source, sw_size, advance, sw_partial, sw_asked,
                   last_start, next_windows, sw_index, sw_item, sw_out,
                   sw_error, sw_extra, otherThanSliding>>

\* Lines 347-348: the upstream is exhausted; with include_partial the open
\* windows are gone through, without it the generator returns.
SwExhausted ==
    /\ sw_pc = "loop"
    /\ SwAnswer = "StopAsyncIteration"
    /\ sw_asked' = sw_asked + 1
    /\ sw_index' = 1
    /\ sw_pc' = IF sw_partial THEN "flush" ELSE "returned"
    /\ UNCHANGED <<sw_source, sw_size, advance, sw_partial, windows,
                   last_start, next_windows, sw_item, sw_out, sw_error,
                   sw_extra, otherThanSliding>>

\* Lines 348-351: an open window that holds elements is yielded, an empty one
\* is passed over.
SwFlush ==
    /\ sw_pc = "flush"
    /\ sw_index \in 1..Len(windows)
    /\ IF windows[sw_index].items # <<>>
       THEN /\ sw_out' = Append(sw_out, [items |-> windows[sw_index].items,
                                         ts |-> windows[sw_index].ts,
                                         at |-> 0])
            /\ sw_pc' = "yielded_flush"
            /\ UNCHANGED sw_index
       ELSE /\ sw_index' = sw_index + 1
            /\ UNCHANGED <<sw_out, sw_pc>>
    /\ UNCHANGED <<sw_source, sw_size, advance, sw_partial, sw_asked, windows,
                   last_start, next_windows, sw_item, sw_error, sw_extra,
                   otherThanSliding>>

\* Line 351: the next pull resumes after the yield, at the next open window.
SwResumeFlush ==
    /\ sw_pc = "yielded_flush"
    /\ sw_index' = sw_index + 1
    /\ sw_pc' = "flush"
    /\ UNCHANGED <<sw_source, sw_size, advance, sw_partial, sw_asked, windows,
                   last_start, next_windows, sw_item, sw_out, sw_error,
                   sw_extra, otherThanSliding>>

\* Line 348: no open window is left; the generator returns.
SwFlushDone ==
    /\ sw_pc = "flush"
    /\ sw_index = Len(windows) + 1
    /\ sw_pc' = "returned"
    /\ UNCHANGED <<sw_source, sw_size, advance, sw_partial, sw_asked, windows,
                   last_start, next_windows, sw_index, sw_item, sw_out,
                   sw_error, sw_extra, otherThanSliding>>

\* Line 321: the upstream fails; the exception leaves the generator.
SwFailed ==
    /\ sw_pc = "loop"
    /\ SwAnswer = "boom"
    /\ sw_asked' = sw_asked + 1
    /\ sw_pc' = "raised"
    /\ sw_error' = "boom"
    /\ UNCHANGED <<sw_source, sw_size, advance, sw_partial, windows,
                   last_start, next_windows, sw_index, sw_item, sw_out,
                   sw_extra, otherThanSliding>>

\* A pull on the generator after it returned or raised: a finished async
\* generator answers StopAsyncIteration and runs no code.
SwPullFinished ==
    /\ sw_pc \in {"returned", "raised"}
    /\ sw_extra < MaxExtraPulls
    /\ sw_extra' = sw_extra + 1
    /\ UNCHANGED <<sw_source, sw_size, advance, sw_partial, sw_asked, windows,
                   last_start, next_windows, sw_index, sw_item, sw_pc,
                   sw_out, sw_error, otherThanSliding>>

SlidingNext ==
    \/ SwCallRejected
    \/ SwCallBuilt
    \/ SwPull
    \/ SwSkipNone
    \/ SwArrive
    \/ SwCloseEmit
    \/ SwResumeScan
    \/ SwCloseDrop
    \/ SwKeep
    \/ SwScanDone
    \/ SwExhausted
    \/ SwFlush
    \/ SwResumeFlush
    \/ SwFlushDone
    \/ SwFailed
    \/ SwPullFinished

\* ------------------------------------------------- tap -> skip -> take
\* Stream(source).tap(callback).skip(skip_count).take(take_count): three
\* generators, each pulling from the one before.  A pull of the consumer runs
\* _take, whose anext runs _skip, whose async for runs _tap, which asks the
\* source.
PipeIdle ==
    /\ pipe_source = [len |-> 0, fails |-> FALSE]
    /\ skip_count = 0
    /\ take_count = 0
    /\ pipe_asked = 0
    /\ tap_seen = <<>>
    /\ skipped = 0
    /\ seen = 0
    /\ take_pulls = 0
    /\ pipe_pc = "unused"
    /\ pipe_out = <<>>
    /\ pipe_error = "None"
    /\ pipe_extra = 0

\* Lines 53-59, 86-111: the three streams are built; no generator has run.
PipeInit ==
    /\ pipe_source \in [len : 0..PipeMaxLen, fails : BOOLEAN]
    /\ skip_count \in -1..PipeMaxSkip
    /\ take_count \in -1..PipeMaxTake
    /\ pipe_asked = 0
    /\ tap_seen = <<>>
    /\ skipped = 0
    /\ seen = 0
    /\ take_pulls = 0
    /\ pipe_pc = "unstarted"
    /\ pipe_out = <<>>
    /\ pipe_error = "None"
    /\ pipe_extra = 0

\* Line 92: take goes on asking.
TakeWants_OneMore == seen <= take_count

TakeWants == seen < take_count

\* Lines 88-89: the first pull finds count <= 0 and the generator returns.
TakeNothing ==
    /\ pipe_pc = "unstarted"
    /\ take_count <= 0
    /\ pipe_pc' = "returned"
    /\ UNCHANGED <<pipe_source, skip_count, take_count, pipe_asked, tap_seen,
                   skipped, seen, take_pulls, pipe_out, pipe_error,
                   pipe_extra, otherThanPipe>>

\* Lines 90-91: the first pull starts the count.
TakeStart ==
    /\ pipe_pc = "unstarted"
    /\ ~(take_count <= 0)
    /\ seen' = 0
    /\ pipe_pc' = "while"
    /\ UNCHANGED <<pipe_source, skip_count, take_count, pipe_asked, tap_seen,
                   skipped, take_pulls, pipe_out, pipe_error, pipe_extra,
                   otherThanPipe>>

\* Line 98: the next pull resumes after the yield and counts the element.
TakeResume ==
    /\ pipe_pc = "yielded"
    /\ seen' = seen + 1
    /\ pipe_pc' = "while"
    /\ UNCHANGED <<pipe_source, skip_count, take_count, pipe_asked, tap_seen,
                   skipped, take_pulls, pipe_out, pipe_error, pipe_extra,
                   otherThanPipe>>

\* Lines 92-94: take asks the skip stream for an element.
TakeAsk ==
    /\ pipe_pc = "while"
    /\ TakeWants
    /\ take_pulls' = take_pulls + 1
    /\ pipe_pc' = "skip"
    /\ UNCHANGED <<pipe_source, skip_count, take_count, pipe_asked, tap_seen,
                   skipped, seen, pipe_out, pipe_error, pipe_extra,
                   otherThanPipe>>

\* Line 92: count elements were yielded; the loop ends and the generator
\* returns.
TakeDone ==
    /\ pipe_pc = "while"
    /\ ~TakeWants
    /\ pipe_pc' = "returned"
    /\ UNCHANGED <<pipe_source, skip_count, take_count, pipe_asked, tap_seen,
                   skipped, seen, take_pulls, pipe_out, pipe_error,
                   pipe_extra, otherThanPipe>>

\* Lines 55-57 and 105-108: the source gives an element, the callback of tap
\* is called with it, and skip discards it.
SkipDiscard ==
    /\ pipe_pc = "skip"
    /\ Answer(pipe_source, pipe_asked) = "item"
    /\ skipped < skip_count
    /\ pipe_asked' = pipe_asked + 1
    /\ tap_seen' = Append(tap_seen, pipe_asked + 1)
    /\ skipped' = skipped + 1
    /\ UNCHANGED <<pipe_source, skip_count, take_count, seen, take_pulls,
                   pipe_pc, pipe_out, pipe_error, pipe_extra, otherThanPipe>>

\* Lines 55-57, 109 and 97: the source gives an element, the callback of tap
\* is called with it, skip yields it and take yields it to the consumer.
SkipForward ==
    /\ pipe_pc = "skip"
    /\ Answer(pipe_source, pipe_asked) = "item"
    /\ ~(skipped < skip_count)
    /\ pipe_asked' = pipe_asked + 1
    /\ tap_seen' = Append(tap_seen, pipe_asked + 1)
    /\ pipe_out' = Append(pipe_out, pipe_asked + 1)
    /\ pipe_pc' = "yielded"
    /\ UNCHANGED <<pipe_source, skip_count, take_count, skipped, seen,
                   take_pulls, pipe_error, pipe_extra, otherThanPipe>>

\* Lines 95-96: the source is exhausted, so the tap and skip generators end;
\* take catches StopAsyncIteration, leaves the loop and returns.
PipeExhausted ==
    /\ pipe_pc = "skip"
    /\ Answer(pipe_source, pipe_asked) = "StopAsyncIteration"
    /\ pipe_asked' = pipe_asked + 1
    /\ pipe_pc' = "returned"
    /\ UNCHANGED <<pipe_source, skip_count, take_count, tap_seen, skipped,
                   seen, take_pulls, pipe_out, pipe_error, pipe_extra,
                   otherThanPipe>>

\* Lines 55, 105 and 94: the source fails; no generator catches the
\* exception, which reaches the consumer.
PipeFailed ==
    /\ pipe_pc = "skip"
    /\ Answer(pipe_source, pipe_asked) = "boom"
    /\ pipe_asked' = pipe_asked + 1
    /\ pipe_pc' = "raised"
    /\ pipe_error' = "boom"
    /\ UNCHANGED <<pipe_source, skip_count, take_count, tap_seen, skipped,
                   seen, take_pulls, pipe_out, pipe_extra, otherThanPipe>>

\* A pull on the take generator after it returned or raised: a finished async
\* generator answers StopAsyncIteration and runs no code.
PipePullFinished ==
    /\ pipe_pc \in {"returned", "raised"}
    /\ pipe_extra < MaxExtraPulls
    /\ pipe_extra' = pipe_extra + 1
    /\ UNCHANGED <<pipe_source, skip_count, take_count, pipe_asked, tap_seen,
                   skipped, seen, take_pulls, pipe_pc, pipe_out, pipe_error,
                   otherThanPipe>>

PipeNext ==
    \/ TakeNothing
    \/ TakeStart
    \/ TakeResume
    \/ TakeAsk
    \/ TakeDone
    \/ SkipDiscard
    \/ SkipForward
    \/ PipeExhausted
    \/ PipeFailed
    \/ PipePullFinished

\* --------------------------------------------------- map, filter and tap
\* Stream(source).map(predicate), .filter(predicate) or .tap(callback): one
\* generator over the source.  The user's callable is given by what it does
\* with each element: it returns a truthy value, returns a falsy value, or
\* raises.
Outcomes == {"truthy", "falsy", "raises"}

CallbackIdle ==
    /\ cb_op = "unused"
    /\ cb_source = [len |-> 0, fails |-> FALSE]
    /\ predicate = <<>>
    /\ cb_asked = 0
    /\ called = <<>>
    /\ cb_pc = "unused"
    /\ cb_out = <<>>
    /\ cb_error = "None"
    /\ cb_extra = 0

\* A stream over the source exists; the operator method is about to be called.
CallbackInit ==
    /\ cb_op \in {"map", "filter", "tap"}
    /\ cb_source \in [len : 0..CbMaxLen, fails : BOOLEAN]
    /\ predicate \in [1..cb_source.len -> Outcomes]
    /\ cb_asked = 0
    /\ called = <<>>
    /\ cb_pc = "uncalled"
    /\ cb_out = <<>>
    /\ cb_error = "None"
    /\ cb_extra = 0

\* Lines 49, 57 and 73: what the generator yields for an element: map yields
\* the value the callable returned for it, filter and tap the element itself.
Mapped(item) == <<"predicate", item, predicate[item]>>

Emitted(item) == IF cb_op = "map" THEN Mapped(item) ELSE item

\* Lines 49, 56 and 72: the call of the callable raises.
Raises_Never(item) == FALSE

Raises(item) == predicate[item] = "raises"

\* Line 72: filter lets an element through.
Passes_Falsy(item) == cb_op = "filter" => predicate[item] = "falsy"

Passes(item) == cb_op = "filter" => predicate[item] = "truthy"

\* Lines 46-51, 53-59, 69-75 and 26-27: the operator method defines the
\* generator function, calls it (which runs none of its body) and wraps the
\* generator in a Stream, whose __init__ takes aiter of it.
CbBuild_Eager ==
    /\ cb_pc = "uncalled"
    /\ cb_pc' = "unstarted"
    /\ cb_asked' = cb_asked + 1
    /\ UNCHANGED <<cb_op, cb_source, predicate, called, cb_out, cb_error,
                   cb_extra, otherThanCallback>>

CbBuild ==
    /\ cb_pc = "uncalled"
    /\ cb_pc' = "unstarted"
    /\ UNCHANGED <<cb_op, cb_source, predicate, cb_asked, called, cb_out,
                   cb_error, cb_extra, otherThanCallback>>

\* Lines 48, 55, 71: a pull starts the generator, or resumes it after its
\* yield; either way the async for asks the source for the next element.
CbPull ==
    /\ cb_pc \in {"unstarted", "yielded"}
    /\ cb_pc' = "for"
    /\ UNCHANGED <<cb_op, cb_source, predicate, cb_asked, called, cb_out,
                   cb_error, cb_extra, otherThanCallback>>

\* Lines 49, 56-57, 72-73: the source gives an element, the callable returns
\* for it, and the generator yields.
CbEmit ==
    /\ cb_pc = "for"
    /\ Answer(cb_source, cb_asked) = "item"
    /\ ~Raises(cb_asked + 1)
    /\ Passes(cb_asked + 1)
    /\ cb_asked' = cb_asked + 1
    /\ called' = Append(called, cb_asked + 1)
    /\ cb_out' = Append(cb_out, Emitted(cb_asked + 1))
    /\ cb_pc' = "yielded"
    /\ UNCHANGED <<cb_op, cb_source, predicate, cb_error, cb_extra,
                   otherThanCallback>>

\* Lines 71-72: the predicate of filter returns a falsy value; the element
\* is dropped and the async for asks again.
CbDrop ==
    /\ cb_pc = "for"
    /\ Answer(cb_source, cb_asked) = "item"
    /\ ~Raises(cb_asked + 1)
    /\ ~Passes(cb_asked + 1)
    /\ cb_asked' = cb_asked + 1
    /\ called' = Append(called, cb_asked + 1)
    /\ UNCHANGED <<cb_op, cb_source, predicate, cb_pc, cb_out, cb_error,
                   cb_extra, otherThanCallback>>

\* Lines 49, 56, 72: the callable raises; nothing in the generator catches
\* the exception, which ends the generator and reaches the consumer.
CbThrows ==
    /\ cb_pc = "for"
    /\ Answer(cb_source, cb_asked) = "item"
    /\ Raises(cb_asked + 1)
    /\ cb_asked' = cb_asked + 1
    /\ called' = Append(called, cb_asked + 1)
    /\ cb_error' = "CallbackError"
    /\ cb_pc' = "raised"
    /\ UNCHANGED <<cb_op, cb_source, predicate, cb_out, cb_extra,
                   otherThanCallback>>

\* Lines 48, 55, 71: the source is exhausted; the async for ends and the
\* generator returns.
CbExhausted ==
    /\ cb_pc = "for"
    /\ Answer(cb_source, cb_asked) = "StopAsyncIteration"
    /\ cb_asked' = cb_asked + 1
    /\ cb_pc' = "returned"
    /\ UNCHANGED <<cb_op, cb_source, predicate, called, cb_out, cb_error,
                   cb_extra, otherThanCallback>>

\* Lines 48, 55, 71: the source fails; the exception leaves the generator.
CbFailed ==
    /\ cb_pc = "for"
    /\ Answer(cb_source, cb_asked) = "boom"
    /\ cb_asked' = cb_asked + 1
    /\ cb_error' = "boom"
    /\ cb_pc' = "raised"
    /\ UNCHANGED <<cb_op, cb_source, predicate, called, cb_out, cb_extra,
                   otherThanCallback>>

\* A pull on the generator after it returned or raised: a finished async
\* generator answers StopAsyncIteration and runs no code.
CbPullFinished ==
    /\ cb_pc \in {"returned", "raised"}
    /\ cb_extra < MaxExtraPulls
    /\ cb_extra' = cb_extra + 1
    /\ UNCHANGED <<cb_op, cb_source, predicate, cb_asked, called, cb_pc,
                   cb_out, cb_error, otherThanCallback>>

CallbackNext ==
    \/ CbBuild
    \/ CbPull
    \/ CbEmit
    \/ CbDrop
    \/ CbThrows
    \/ CbExhausted
    \/ CbFailed
    \/ CbPullFinished

\* -------------------------------------------------------------------- sink
\* await Stream(source).sink(sink, parallel): the callable is a coroutine
\* function, as in test_sink_processes_tail_chunk.  sink(item) makes a
\* coroutine that has not begun to run ("created"); asyncio.gather makes a
\* task of every staged awaitable ("running"), and each task ends on its own
\* ("completed", or "failed" when the callable raises).
SinkIdle ==
    /\ sink_source = [len |-> 0, fails |-> FALSE]
    /\ parallel = 0
    /\ sink_raises = 0
    /\ sink_asked = 0
    /\ sink_chunk = <<>>
    /\ sink_calls = <<>>
    /\ invocations = <<>>
    /\ sink_pc = "unused"
    /\ sink_error = "None"

\* Lines 361-363: sink(sink, parallel) has been called and its coroutine has
\* not begun to run.
SinkInit ==
    /\ sink_source \in [len : 0..SinkMaxLen, fails : BOOLEAN]
    /\ parallel \in -1..SinkMaxParallel
    /\ sink_raises \in 0..sink_source.len
    /\ sink_asked = 0
    /\ sink_chunk = <<>>
    /\ sink_calls = <<>>
    /\ invocations = [k \in 1..sink_source.len |-> "none"]
    /\ sink_pc = "unstarted"
    /\ sink_error = "None"

\* Line 367: the staging buffer is full.
BatchFull_Never(staged) == FALSE

BatchFull(staged) == Len(staged) = parallel

\* Lines 368 and 373: asyncio.gather(*chunk) makes a task of every staged
\* awaitable.
Gather(staged) ==
    [k \in DOMAIN invocations |->
        IF \E j \in 1..Len(staged) : staged[j] = k THEN "running"
        ELSE invocations[k]]

\* The tasks of the batch have all ended without an exception, so the await
\* of gather returns.
GatherDone_NoWait == TRUE

GatherDone == \A j \in 1..Len(sink_chunk) : invocations[sink_chunk[j]] = "completed"

\* A task of the batch has ended with an exception, so the await of gather
\* raises it; the other tasks of the batch are left running.
GatherRaises == \E j \in 1..Len(sink_chunk) : invocations[sink_chunk[j]] = "failed"

\* Line 364: the coroutine starts.
SinkStart ==
    /\ sink_pc = "unstarted"
    /\ sink_chunk' = <<>>
    /\ sink_pc' = "for"
    /\ UNCHANGED <<sink_calls, sink_source, parallel, sink_raises, sink_asked,
                   invocations, sink_error, otherThanSink>>

\* Lines 365-367: the upstream gives an element, sink(item) is called and
\* its awaitable staged; the buffer is not full and the loop asks again.
SinkStage ==
    /\ sink_pc = "for"
    /\ Answer(sink_source, sink_asked) = "item"
    /\ ~BatchFull(Append(sink_chunk, sink_asked + 1))
    /\ sink_asked' = sink_asked + 1
    /\ sink_chunk' = Append(sink_chunk, sink_asked + 1)
    /\ sink_calls' = Append(sink_calls, sink_asked + 1)
    /\ invocations' = [invocations EXCEPT ![sink_asked + 1] = "created"]
    /\ UNCHANGED <<sink_source, parallel, sink_raises, sink_pc, sink_error,
                   otherThanSink>>

\* Lines 365-368: the upstream gives an element, sink(item) is called and
\* its awaitable staged; the buffer is full and the batch is gathered.
SinkStageFull ==
    /\ sink_pc = "for"
    /\ Answer(sink_source, sink_asked) = "item"
    /\ BatchFull(Append(sink_chunk, sink_asked + 1))
    /\ sink_asked' = sink_asked + 1
    /\ sink_chunk' = Append(sink_chunk, sink_asked + 1)
    /\ sink_calls' = Append(sink_calls, sink_asked + 1)
    /\ invocations' = Gather(Append(sink_chunk, sink_asked + 1))
    /\ sink_pc' = "gather"
    /\ UNCHANGED <<sink_source, parallel, sink_raises, sink_error,
                   otherThanSink>>

\* A task made by gather runs sink(item) to its end.
InvocationEnds(k) ==
    /\ k \in DOMAIN invocations
    /\ invocations[k] = "running"
    /\ invocations' = [invocations EXCEPT
           ![k] = IF k = sink_raises THEN "failed" ELSE "completed"]
    /\ UNCHANGED <<sink_calls, sink_source, parallel, sink_raises, sink_asked,
                   sink_chunk, sink_pc, sink_error, otherThanSink>>

\* Lines 368-370: the batch has completed; the buffer is cleared and the
\* loop asks again.
SinkBatchDone ==
    /\ sink_pc = "gather"
    /\ GatherDone
    /\ sink_chunk' = <<>>
    /\ sink_pc' = "for"
    /\ UNCHANGED <<sink_calls, sink_source, parallel, sink_raises, sink_asked,
                   invocations, sink_error, otherThanSink>>

\* Lines 368 and 373: gather raises the exception of an invocation, which
\* leaves Stream.sink.
SinkBatchFailed ==
    /\ sink_pc \in {"gather", "tail"}
    /\ GatherRaises
    /\ sink_pc' = "raised"
    /\ sink_error' = "SinkError"
    /\ UNCHANGED <<sink_calls, sink_source, parallel, sink_raises, sink_asked,
                   sink_chunk, invocations, otherThanSink>>

\* Lines 365 and 372-373: the upstream is exhausted with awaitables staged,
\* which are gathered.
SinkTail ==
    /\ sink_pc = "for"
    /\ Answer(sink_source, sink_asked) = "StopAsyncIteration"
    /\ sink_chunk # <<>>
    /\ sink_asked' = sink_asked + 1
    /\ invocations' = Gather(sink_chunk)
    /\ sink_pc' = "tail"
    /\ UNCHANGED <<sink_calls, sink_source, parallel, sink_raises, sink_chunk,
                   sink_error, otherThanSink>>

\* Lines 365 and 372: the upstream is exhausted with nothing staged.
SinkReturnEmpty ==
    /\ sink_pc = "for"
    /\ Answer(sink_source, sink_asked) = "StopAsyncIteration"
    /\ sink_chunk = <<>>
    /\ sink_calls = <<>>
    /\ sink_asked' = sink_asked + 1
    /\ sink_pc' = "returned"
    /\ UNCHANGED <<sink_calls, sink_source, parallel, sink_raises, sink_chunk,
                   invocations, sink_error, otherThanSink>>

\* Line 373: the tail batch has completed and Stream.sink returns.
SinkTailDone ==
    /\ sink_pc = "tail"
    /\ GatherDone
    /\ sink_pc' = "returned"
    /\ UNCHANGED <<sink_calls, sink_source, parallel, sink_raises, sink_asked,
                   sink_chunk, invocations, sink_error, otherThanSink>>

\* Line 365: the upstream fails; the exception leaves Stream.sink, and the
\* staged awaitables are dropped with the frame.
SinkUpstreamFailed ==
    /\ sink_pc = "for"
    /\ Answer(sink_source, sink_asked) = "boom"
    /\ sink_asked' = sink_asked + 1
    /\ sink_pc' = "raised"
    /\ sink_error' = "boom"
    /\ UNCHANGED <<sink_calls, sink_source, parallel, sink_raises, sink_chunk,
                   invocations, otherThanSink>>

SinkNext ==
    \/ SinkStart
    \/ SinkStage
    \/ SinkStageFull
    \/ \E k \in 1..SinkMaxLen : InvocationEnds(k)
    \/ SinkBatchDone
    \/ SinkBatchFailed
    \/ SinkTail
    \/ SinkReturnEmpty
    \/ SinkTailDone
    \/ SinkUpstreamFailed

\* ------------------------------------------------------- skry_di.Container
\* A Container used from one context, with the tokens of
\* test_nested_dependency_tree_resolves_transitively: the factories of
\* Repository resolve Service, the factories of Service resolve nothing.
\* An instance is known by its place in `instances`.
Tokens == {"Service", "Repository"}

Requires(token) == IF token = "Repository" THEN <<"Service">> ELSE <<>>

Lifetimes == {"transient", "singleton", "scoped"}

NoProvider == [factory |-> 0, lifetime |-> "none"]

Nothing == [t \in Tokens |-> 0]

Called(op, token, err, instance, created) ==
    [op |-> op, token |-> token, error |-> err, instance |-> instance,
     created |-> created]

ContainerIdle ==
    /\ providers = <<>>
    /\ singletons = <<>>
    /\ scoped_cache = <<>>
    /\ scope_tokens = <<>>
    /\ instances = <<>>
    /\ registered = 0
    /\ entered = 0
    /\ di_result = Called("unused", "", "None", 0, 0)

\* Lines 35-64: Container(), and its first registrations: a token is
\* registered once, with its factory number 0, or not at all.
ContainerInit ==
    /\ providers \in [Tokens -> {NoProvider} \cup
                        [factory : {0}, lifetime : Lifetimes]]
    /\ singletons = Nothing
    /\ scoped_cache = <<>>
    /\ scope_tokens = <<>>
    /\ instances = <<>>
    /\ registered = 0
    /\ entered = 0
    /\ di_result = Called("Container", "", "None", 0, 0)

\* The dict a scope is working with (0: none).
ScopeOf(cache) == IF cache = <<>> THEN 0 ELSE cache[1].id

\* A scope that starts from a copy of what the enclosing scope holds.
NewCache_Inherited(id) ==
    <<[id |-> id,
       held |-> IF scoped_cache = <<>> THEN Nothing ELSE scoped_cache[1].held]>>

\* Line 93: the dict scope() sets.
NewCache(id) == <<[id |-> id, held |-> Nothing]>>

\* Line 97: the value reset(scope_token) gives back to the variable.
Restored_Kept(scope_token) == scoped_cache

Restored(scope_token) == scope_token

\* Lines 81 and 88: the instance is kept under the token.
Store_Nothing(held, token, instance) == held

Store(held, token, instance) == [held EXCEPT ![token] = instance]

\* Lines 71-89.  A resolution works on [singletons, cache, instances] and
\* ends with an error or an instance.
RECURSIVE resolve(_, _)

\* provider.factory(self.resolve): the factory resolves what it depends on
\* and makes an instance.
Factory(token, st) ==
    LET dep == IF Requires(token) # <<>> THEN resolve(Requires(token)[1], st)
               ELSE [st EXCEPT !.error = "None", !.instance = 0]
    IN  IF dep.error # "None" THEN dep
        ELSE [dep EXCEPT
                 !.instances = Append(dep.instances,
                     [token |-> token,
                      factory |-> providers[token].factory,
                      lifetime |-> providers[token].lifetime,
                      scope |-> ScopeOf(dep.cache),
                      dep |-> dep.instance]),
                 !.instance = Len(dep.instances) + 1]

resolve(token, st) ==
    LET provider == providers[token]
        made == Factory(token, st)
    IN  IF provider = NoProvider
        THEN [st EXCEPT !.error = "ProviderNotFoundError"]
        ELSE IF provider.lifetime = "transient" THEN made
        ELSE IF provider.lifetime = "singleton"
        THEN IF st.singletons[token] # 0
             THEN [st EXCEPT !.error = "None",
                             !.instance = st.singletons[token]]
             ELSE IF made.error # "None" THEN made
             ELSE [made EXCEPT !.singletons =
                       Store(made.singletons, token, made.instance)]
        ELSE IF st.cache = <<>> THEN [st EXCEPT !.error = "ScopeError"]
        ELSE IF st.cache[1].held[token] # 0
        THEN [st EXCEPT !.error = "None",
                        !.instance = st.cache[1].held[token]]
        ELSE IF made.error # "None" THEN made
        ELSE [made EXCEPT !.cache[1].held =
                  Store(made.cache[1].held, token, made.instance)]

\* The call resolve(token) made on the container as it stands.
Resolution(token) ==
    resolve(token, [singletons |-> singletons, cache |-> scoped_cache,
                    instances |-> instances, error |-> "None",
                    instance |-> 0])

\* Lines 59-60: register finds the token taken and replace is false.
RegisterRejected(token) ==
    /\ providers[token] # NoProvider
    /\ di_result' = Called("register", token,
                           "ProviderAlreadyRegisteredError", 0, 0)
    /\ UNCHANGED <<providers, singletons, scoped_cache, scope_tokens,
                   instances, registered, entered, otherThanContainer>>

\* Lines 59-64: register stores the provider.
Register(token, lifetime, replace) ==
    /\ registered < DiMaxRegisters
    /\ ~(providers[token] # NoProvider /\ ~replace)
    /\ registered' = registered + 1
    /\ providers' = [providers EXCEPT
           ![token] = [factory |-> registered + 1, lifetime |-> lifetime]]
    /\ di_result' = Called("register", token, "None", 0, 0)
    /\ UNCHANGED <<singletons, scoped_cache, scope_tokens, instances,
                   entered, otherThanContainer>>

\* Lines 71-89: resolve returns an instance.
ResolveReturns(token) ==
    LET ended == Resolution(token) IN
    /\ Len(ended.instances) <= DiMaxInstances
    /\ ended.error = "None"
    /\ singletons' = ended.singletons
    /\ scoped_cache' = ended.cache
    /\ instances' = ended.instances
    /\ di_result' = Called("resolve", token, "None", ended.instance,
                           Len(ended.instances) - Len(instances))
    /\ UNCHANGED <<providers, scope_tokens, registered, entered,
                   otherThanContainer>>

\* Lines 71-89: resolve raises.
ResolveRaises(token) ==
    LET ended == Resolution(token) IN
    /\ ended.error # "None"
    /\ singletons' = ended.singletons
    /\ scoped_cache' = ended.cache
    /\ instances' = ended.instances
    /\ di_result' = Called("resolve", token, ended.error, 0,
                           Len(ended.instances) - Len(instances))
    /\ UNCHANGED <<providers, scope_tokens, registered, entered,
                   otherThanContainer>>

\* Lines 92-95: `with container.scope():` is entered.
ScopeEnter ==
    /\ entered < DiMaxScopes
    /\ entered' = entered + 1
    /\ scope_tokens' = Append(scope_tokens, scoped_cache)
    /\ scoped_cache' = NewCache(entered + 1)
    /\ di_result' = Called("scope", "", "None", 0, 0)
    /\ UNCHANGED <<providers, singletons, instances, registered,
                   otherThanContainer>>

\* Lines 96-97: the innermost `with container.scope():` is left, at the end
\* of its body or by an exception raised in it.
ScopeExit(exception) ==
    /\ scope_tokens # <<>>
    /\ scoped_cache' = Restored(scope_tokens[Len(scope_tokens)])
    /\ scope_tokens' = SubSeq(scope_tokens, 1, Len(scope_tokens) - 1)
    /\ di_result' = Called(IF exception THEN "scope raised" ELSE "scope left",
                           "", "None", 0, 0)
    /\ UNCHANGED <<providers, singletons, instances, registered, entered,
                   otherThanContainer>>

ContainerNext ==
    \/ \E token \in Tokens : RegisterRejected(token)
    \/ \E token \in Tokens, lifetime \in Lifetimes, replace \in BOOLEAN :
           Register(token, lifetime, replace)
    \/ \E token \in Tokens : ResolveReturns(token)
    \/ \E token \in Tokens : ResolveRaises(token)
    \/ ScopeEnter
    \/ \E exception \in BOOLEAN : ScopeExit(exception)

\* ----------------------------------------------------- the call of split
\* Lines 35-36: split(branches) is about to be called on a stream over the
\* upstream; no _SplitState exists yet.
SplitCallInit ==
    /\ split_call \in [branches : (-1..1) \cup {NBranches},
                       result : {"uncalled"}]
    /\ split_source \in [items : SeqsUpTo(Vals, MaxLen), fails : BOOLEAN]
    /\ iterator = 0
    /\ raised = FALSE
    /\ buffers = <<>>
    /\ done = FALSE
    /\ error = "None"
    /\ lock = [locked |-> FALSE, waiters |-> <<>>]
    /\ branch_pc = <<>>
    /\ closed = <<>>
    /\ delivered = <<>>
    /\ signals = <<>>
    /\ requests = <<>>
    /\ extra = <<>>
    /\ advances = 0
    /\ running = 0

\* Lines 37-38: the call raises ValueError.
SplitCallRejected ==
    /\ split_call.result = "uncalled"
    /\ split_call.branches < 2
    /\ split_call' = [split_call EXCEPT !.result = "ValueError"]
    /\ UNCHANGED <<splitVars, mergeVars, orderedVars, zipVars, chunkVars,
                   windowVars, slidingVars, pipeVars, callbackVars, sinkVars,
                   containerVars>>

\* Lines 39 and 395-400, 434-447: the call builds the _SplitState and the
\* branches, none of which has run yet.
SplitCallBuilt ==
    /\ split_call.result = "uncalled"
    /\ ~(split_call.branches < 2)
    /\ split_call' = [split_call EXCEPT !.result = "built"]
    /\ iterator' = 0
    /\ buffers' = [i \in 1..split_call.branches |-> <<>>]
    /\ done' = FALSE
    /\ error' = "None"
    /\ lock' = [locked |-> FALSE, waiters |-> <<>>]
    /\ branch_pc' = [i \in 1..split_call.branches |-> "idle"]
    /\ closed' = [i \in 1..split_call.branches |-> FALSE]
    /\ delivered' = [i \in 1..split_call.branches |-> <<>>]
    /\ signals' = [i \in 1..split_call.branches |-> <<>>]
    /\ requests' = [i \in 1..split_call.branches |-> 0]
    /\ extra' = [i \in 1..split_call.branches |-> 0]
    /\ UNCHANGED <<split_source, raised, advances, running>>
    /\ UNCHANGED <<mergeVars, orderedVars, zipVars, chunkVars, windowVars,
                   slidingVars, pipeVars, callbackVars, sinkVars,
                   containerVars>>

\* A step of the branches of the split the call has built.
SplitStep ==
    /\ split_call.result = "built"
    /\ SplitNext

ConstructNext ==
    \/ SplitCallRejected
    \/ SplitCallBuilt
    \/ SplitStep
    \/ SwCallRejected
    \/ SwCallBuilt
    \/ SwPull
    \/ SwSkipNone
    \/ SwArrive
    \/ SwCloseEmit
    \/ SwResumeScan
    \/ SwCloseDrop
    \/ SwKeep
    \/ SwScanDone
    \/ SwExhausted
    \/ SwFlush
    \/ SwResumeFlush
    \/ SwFlushDone
    \/ SwFailed
    \/ SwPullFinished

\* ---------------------------------------------------------- specifications
SplitIdle ==
    /\ split_source = [items |-> <<>>, fails |-> FALSE]
    /\ iterator = 0
    /\ raised = FALSE
    /\ buffers = <<>>
    /\ done = FALSE
    /\ error = "None"
    /\ lock = [locked |-> FALSE, waiters |-> <<>>]
    /\ branch_pc = <<>>
    /\ closed = <<>>
    /\ delivered = <<>>
    /\ signals = <<>>
    /\ requests = <<>>
    /\ extra = <<>>
    /\ advances = 0
    /\ running = 0
    /\ split_call = [branches |-> 0, result |-> "unused"]

\* The split whose branches SpecSplit runs was built by split(NBranches).
SplitBuilt == split_call = [branches |-> NBranches, result |-> "built"]

\* Every sub-system but the one a specification runs stays idle.
IdleButSplit ==
    /\ MergeIdle /\ OrderedIdle /\ ZipIdle /\ ChunkIdle
    /\ WindowIdle /\ SlidingIdle /\ PipeIdle /\ CallbackIdle
    /\ SinkIdle /\ ContainerIdle
IdleButMerge ==
    /\ SplitIdle /\ OrderedIdle /\ ZipIdle /\ ChunkIdle
    /\ WindowIdle /\ SlidingIdle /\ PipeIdle /\ CallbackIdle
    /\ SinkIdle /\ ContainerIdle
IdleButOrdered ==
    /\ SplitIdle /\ MergeIdle /\ ZipIdle /\ ChunkIdle
    /\ WindowIdle /\ SlidingIdle /\ PipeIdle /\ CallbackIdle
    /\ SinkIdle /\ ContainerIdle
IdleButZip ==
    /\ SplitIdle /\ MergeIdle /\ OrderedIdle /\ ChunkIdle
    /\ WindowIdle /\ SlidingIdle /\ PipeIdle /\ CallbackIdle
    /\ SinkIdle /\ ContainerIdle
IdleButChunk ==
    /\ SplitIdle /\ MergeIdle /\ OrderedIdle /\ ZipIdle
    /\ WindowIdle /\ SlidingIdle /\ PipeIdle /\ CallbackIdle
    /\ SinkIdle /\ ContainerIdle
IdleButWindow ==
    /\ SplitIdle /\ MergeIdle /\ OrderedIdle /\ ZipIdle
    /\ ChunkIdle /\ SlidingIdle /\ PipeIdle /\ CallbackIdle
    /\ SinkIdle /\ ContainerIdle
IdleButSliding ==
    /\ SplitIdle /\ MergeIdle /\ OrderedIdle /\ ZipIdle
    /\ ChunkIdle /\ WindowIdle /\ PipeIdle /\ CallbackIdle
    /\ SinkIdle /\ ContainerIdle
IdleButPipe ==
    /\ SplitIdle /\ MergeIdle /\ OrderedIdle /\ ZipIdle
    /\ ChunkIdle /\ WindowIdle /\ SlidingIdle /\ CallbackIdle
    /\ SinkIdle /\ ContainerIdle
IdleButCallback ==
    /\ SplitIdle /\ MergeIdle /\ OrderedIdle /\ ZipIdle
    /\ ChunkIdle /\ WindowIdle /\ SlidingIdle /\ PipeIdle
    /\ SinkIdle /\ ContainerIdle
IdleButSink ==
    /\ SplitIdle /\ MergeIdle /\ OrderedIdle /\ ZipIdle
    /\ ChunkIdle /\ WindowIdle /\ SlidingIdle /\ PipeIdle
    /\ CallbackIdle /\ ContainerIdle
IdleButContainer ==
    /\ SplitIdle /\ MergeIdle /\ OrderedIdle /\ ZipIdle
    /\ ChunkIdle /\ WindowIdle /\ SlidingIdle /\ PipeIdle
    /\ CallbackIdle /\ SinkIdle

InitSplit == SplitInit /\ SplitBuilt /\ IdleButSplit
SpecSplit == InitSplit /\ [][SplitNext]_vars

InitMergeValues == MergeValuesInit /\ IdleButMerge
SpecMergeValues == InitMergeValues /\ [][MergeNext]_vars

\* A split whose consumers may be cancelled while they wait for the upstream.
SplitCancelNext ==
    \E i \in Branches :
        \/ Pull(i)
        \/ PullClosed(i)
        \/ TopDeliver(i)
        \/ TopTerminated(i)
        \/ TopAcquire(i)
        \/ Wake(i)
        \/ Recheck(i)
        \/ StartAdvance(i)
        \/ FinishAdvance(i)
        \/ CancelAdvance(i)

SpecSplitCancel == InitSplit /\ [][SplitCancelNext]_vars

InitMerge == MergeInit /\ IdleButMerge
SpecMerge == InitMerge /\ [][MergeNext]_vars

\* A merge whose consumer pulls until the stream ends, on a loop that runs
\* every task that can run: the consumer never closes the stream, and the
\* consumer and each pumping task take their next step when it stays possible.
ConsumerStep ==
    \/ MergeStart
    \/ MergeResume
    \/ MergeWait
    \/ MergeGet
    \/ MergeRaise
    \/ MergeLoopExit
    \/ MergeReturn

PumpStep(t) ==
    /\ t \in Pumps
    /\ \/ PumpStart(t)
       \/ PumpItem(t)
       \/ PumpExhausted(t)
       \/ PumpFailed(t)
       \/ PumpCancelled(t)

PulledNext ==
    \/ MergeStart
    \/ MergeResume
    \/ MergeWait
    \/ MergeGet
    \/ MergeRaise
    \/ MergeLoopExit
    \/ MergeReturn
    \/ \E t \in Pumps : PumpStart(t)
    \/ \E t \in Pumps : PumpItem(t)
    \/ \E t \in Pumps : PumpExhausted(t)
    \/ \E t \in Pumps : PumpFailed(t)
    \/ \E t \in Pumps : PumpCancelled(t)

InitMergePulled ==
    /\ InitMerge
    /\ SumLen(merge_sources, Len(merge_sources)) <= PulledMaxTotal

SpecMergePulled ==
    /\ InitMergePulled
    /\ [][PulledNext]_vars
    /\ WF_vars(ConsumerStep)
    /\ \A t \in 1..MaxSources : WF_vars(PumpStep(t))

InitMergeOrdered == OrderedInit /\ IdleButOrdered
SpecMergeOrdered == InitMergeOrdered /\ [][OrderedNext]_vars

InitZip == ZipInit /\ IdleButZip
SpecZip == InitZip /\ [][ZipNext]_vars

InitChunk == ChunkInit /\ IdleButChunk
SpecChunk == InitChunk /\ [][ChunkNext]_vars

InitWindow == WindowInit /\ IdleButWindow
SpecWindow == InitWindow /\ [][WindowNext]_vars

InitSliding == SlidingInit /\ IdleButSliding
SpecSliding == InitSliding /\ [][SlidingNext]_vars

InitPipe == PipeInit /\ IdleButPipe
SpecPipe == InitPipe /\ [][PipeNext]_vars

InitCallback == CallbackInit /\ IdleButCallback
SpecCallback == InitCallback /\ [][CallbackNext]_vars

\* The operators that emit a subsequence of their upstream: filter, and skip
\* and take in the pipeline.
InitElementwise ==
    \/ CallbackInit /\ IdleButCallback
    \/ PipeInit /\ IdleButPipe
ElementwiseNext ==
    \/ CbBuild
    \/ CbPull
    \/ CbEmit
    \/ CbDrop
    \/ CbThrows
    \/ CbExhausted
    \/ CbFailed
    \/ CbPullFinished
    \/ TakeNothing
    \/ TakeStart
    \/ TakeResume
    \/ TakeAsk
    \/ TakeDone
    \/ SkipDiscard
    \/ SkipForward
    \/ PipeExhausted
    \/ PipeFailed
    \/ PipePullFinished
SpecElementwise == InitElementwise /\ [][ElementwiseNext]_vars

InitSink == SinkInit /\ IdleButSink
SpecSink == InitSink /\ [][SinkNext]_vars

InitContainer == ContainerInit /\ IdleButContainer
SpecContainer == InitContainer /\ [][ContainerNext]_vars

\* The container after its first registrations: the calls of resolve and
\* scope.
ScopesNext ==
    \/ \E token \in Tokens : ResolveReturns(token)
    \/ \E token \in Tokens : ResolveRaises(token)
    \/ ScopeEnter
    \/ \E exception \in BOOLEAN : ScopeExit(exception)
SpecScopes == InitContainer /\ [][ScopesNext]_vars

InitConstruct ==
    \/ SplitCallInit /\ IdleButSplit
    \/ SlidingInit /\ IdleButSliding
SpecConstruct == InitConstruct /\ [][ConstructNext]_vars

\* The batching operators chunk, window and sliding_window, each over its
\* own upstream; win_pc has no entry where no window was built.
InitBatches ==
    \/ ChunkInit /\ IdleButChunk
    \/ WindowInit /\ IdleButWindow
    \/ SlidingInit /\ IdleButSliding
BatchesNext ==
    \/ ChunkPull
    \/ ChunkAppend
    \/ ChunkYield
    \/ ChunkResume
    \/ ChunkTail
    \/ ChunkReturn
    \/ ChunkResumeTail
    \/ ChunkFailed
    \/ ChunkPullFinished
    \/ \E include_partial \in DOMAIN win_pc : WinPull(include_partial)
    \/ \E include_partial \in DOMAIN win_pc : WinAppend(include_partial)
    \/ \E include_partial \in DOMAIN win_pc : WinFlush(include_partial)
    \/ \E include_partial \in DOMAIN win_pc : WinResume(include_partial)
    \/ \E include_partial \in DOMAIN win_pc : WinReopen(include_partial)
    \/ \E include_partial \in DOMAIN win_pc : WinTail(include_partial)
    \/ \E include_partial \in DOMAIN win_pc : WinReturn(include_partial)
    \/ \E include_partial \in DOMAIN win_pc : WinResumeTail(include_partial)
    \/ \E include_partial \in DOMAIN win_pc : WinFailed(include_partial)
    \/ \E include_partial \in DOMAIN win_pc : WinPullFinished(include_partial)
    \/ SwCallRejected
    \/ SwCallBuilt
    \/ SwPull
    \/ SwSkipNone
    \/ SwArrive
    \/ SwCloseEmit
    \/ SwResumeScan
    \/ SwCloseDrop
    \/ SwKeep
    \/ SwScanDone
    \/ SwExhausted
    \/ SwFlush
    \/ SwResumeFlush
    \/ SwFlushDone
    \/ SwFailed
    \/ SwPullFinished
SpecBatches == InitBatches /\ [][BatchesNext]_vars

\* The operator methods and the streams they build: the calls of split,
\* sliding_window, map, filter and tap, and the streams built by merge and
\* chunk, from which nothing has been pulled yet.
InitLazy ==
    \/ SplitCallInit /\ IdleButSplit
    \/ SlidingInit /\ IdleButSliding
    \/ CallbackInit /\ IdleButCallback
    \/ MergeInit /\ IdleButMerge
    \/ ChunkInit /\ IdleButChunk
LazyNext ==
    \/ SplitCallRejected
    \/ SplitCallBuilt
    \/ SplitStep
    \/ SwCallRejected
    \/ SwCallBuilt
    \/ SwPull
    \/ SwSkipNone
    \/ SwArrive
    \/ SwCloseEmit
    \/ SwResumeScan
    \/ SwCloseDrop
    \/ SwKeep
    \/ SwScanDone
    \/ SwExhausted
    \/ SwFlush
    \/ SwResumeFlush
    \/ SwFlushDone
    \/ SwFailed
    \/ SwPullFinished
    \/ CbBuild
    \/ CbPull
    \/ CbEmit
    \/ CbDrop
    \/ CbThrows
    \/ CbExhausted
    \/ CbFailed
    \/ CbPullFinished
    \/ MergeStart
    \/ MergeResume
    \/ MergeWait
    \/ MergeGet
    \/ MergeRaise
    \/ MergeLoopExit
    \/ MergeReturn
    \/ MergeClose
    \/ \E t \in Pumps : PumpStart(t)
    \/ \E t \in Pumps : PumpItem(t)
    \/ \E t \in Pumps : PumpExhausted(t)
    \/ \E t \in Pumps : PumpFailed(t)
    \/ \E t \in Pumps : PumpCancelled(t)
    \/ ChunkPull
    \/ ChunkAppend
    \/ ChunkYield
    \/ ChunkResume
    \/ ChunkTail
    \/ ChunkReturn
    \/ ChunkResumeTail
    \/ ChunkFailed
    \/ ChunkPullFinished
SpecLazy == InitLazy /\ [][LazyNext]_vars

\* ------------------------------------------------------------ split claims
IsPrefix(s, t) == Len(s) <= Len(t) /\ SubSeq(t, 1, Len(s)) = s

AllStop(s, from) == \A k \in from..Len(s) : s[k] = "StopAsyncIteration"

\* C1: over a finite upstream that does not fail, under every interleaving of
\* the branches' pulls, a branch delivers a prefix of the upstream sequence,
\* is told of exhaustion only after it has delivered the whole sequence, and
\* is never told anything but exhaustion.
C1_SplitBranchesSeeAll ==
    ~split_source.fails =>
        \A i \in Branches :
            /\ IsPrefix(delivered[i], split_source.items)
            /\ AllStop(signals[i], 1)
            /\ (closed[i] \/ signals[i] # <<>>) =>
                   delivered[i] = split_source.items

\* C1 witness: every branch has delivered a two-element upstream and ended.
C1_Witness ==
    /\ ~split_source.fails
    /\ split_source.items = <<1, 2>>
    /\ \A i \in Branches :
           delivered[i] = <<1, 2>> /\ signals[i] = <<"StopAsyncIteration">>

\* C2: in every state and for every branch, the elements the branch has
\* delivered followed by the contents of its FIFO are the elements pulled
\* from the upstream so far.
C2_BufferInvariant ==
    \A i \in Branches : delivered[i] \o buffers[i] = Pulled

\* C2 witness: one branch has delivered two elements while another, which
\* has not pulled yet, holds both in its FIFO.
C2_Witness ==
    \E i, j \in Branches :
        Len(delivered[i]) = 2 /\ requests[j] = 0 /\ Len(buffers[j]) = 2

\* C3: at most one branch is inside the critical section of the upstream
\* advance, and the upstream is advanced no more often than the busiest
\* branch has asked for an element.
InAdvance == {i \in Branches : branch_pc[i] \in {"locked", "advancing"}}

C3_OneAdvanceAtATime ==
    /\ Cardinality(InAdvance) <= 1
    /\ \E i \in Branches : advances <= requests[i]

\* C3 witness: a branch that waited for the lock holds it now and finds the
\* element the other branch pulled meanwhile in its FIFO.
C3_Witness ==
    \E i \in Branches : branch_pc[i] = "locked" /\ buffers[i] # <<>>

\* C4: when the upstream fails after its elements, a branch is told the
\* stored error once, after it has delivered all of them, and every later
\* pull on that branch reports exhaustion.
C4_SplitErrorOncePerBranch ==
    split_source.fails =>
        \A i \in Branches :
            /\ IsPrefix(delivered[i], split_source.items)
            /\ signals[i] # <<>> =>
                   /\ signals[i][1] = "boom"
                   /\ delivered[i] = split_source.items
                   /\ AllStop(signals[i], 2)

\* C4 witness: the upstream failed after one element; every branch got the
\* element, then the error, then exhaustion.
C4_Witness ==
    /\ split_source.fails
    /\ Len(split_source.items) = 1
    /\ \A i \in Branches :
           /\ delivered[i] = split_source.items
           /\ signals[i] = <<"boom", "StopAsyncIteration">>


\* ------------------------------------------------------------ merge claims
\* The positions, in order, of the elements of source t in the output.
RECURSIVE FromSource(_, _)
FromSource(out, t) ==
    IF out = <<>> THEN <<>>
    ELSE IF Head(out).src = t
         THEN <<Head(out).idx>> \o FromSource(Tail(out), t)
         ELSE FromSource(Tail(out), t)

NoSourceFails == \A t \in Pumps : ~merge_sources[t].fails

\* C5: over sources that do not fail, under every scheduling of the pumps,
\* the elements of a source appear in the output in source order, each once
\* and without gaps; no error is raised; and when the merged stream reports
\* exhaustion every element of every source has been emitted (with a single
\* source the output is that source's sequence).
C5_MergeExactlyOnceInOrder ==
    (merge_pc # "unused" /\ NoSourceFails) =>
        /\ merge_pc # "raised"
        /\ \A t \in Pumps :
               /\ FromSource(merge_out, t) = [k \in 1..Len(FromSource(merge_out, t)) |-> k]
               /\ merge_pc = "exhausted" =>
                      Len(FromSource(merge_out, t)) = merge_sources[t].len
        /\ merge_pc = "exhausted" /\ Len(merge_sources) = 1 =>
               merge_out = [k \in 1..merge_sources[1].len |-> ItemEntry(1, k)]

\* C5 witness: a source of two elements and a source of one were merged to
\* the end, the second source's element coming between the first's.
C5_Witness ==
    /\ merge_pc = "exhausted"
    /\ Len(merge_sources) = 2
    /\ NoSourceFails
    /\ Len(merge_out) = 3
    /\ merge_out[1].src = 1 /\ merge_out[2].src = 2 /\ merge_out[3].src = 1

\* C6: when the merged stream raises, what it raises is the exception of a
\* source that failed, and every pumping task has ended.
C6_MergeErrorAfterPumpsEnded ==
    merge_pc = "raised" =>
        /\ merge_error.obj = "boom"
        /\ merge_sources[merge_error.src].fails
        /\ pump_pos[merge_error.src] = merge_sources[merge_error.src].len
        /\ \A t \in Pumps : Ended(t)

\* C6 witness: the error was raised after a pump that still had elements to
\* deliver was cancelled while it waited for its source.
C6_Witness ==
    /\ merge_pc = "raised"
    /\ \E t \in Pumps : tasks[t] = "finished" /\ cancel_req[t]
                        /\ pump_pos[t] < merge_sources[t].len

\* C7: once the consumer has abandoned the merged stream, its pumps are
\* released: no source is advanced any further.
C7_AbandonReleasesPumps ==
    [][merge_pc = "closed" => pump_pos' = pump_pos]_vars


\* ---------------------------------------------------- merge_ordered claims
\* The elements of source t in the output, in output order.
RECURSIVE ItemsFrom(_, _)
ItemsFrom(out, t) ==
    IF out = <<>> THEN <<>>
    ELSE IF Head(out).src = t
         THEN <<Head(out).item>> \o ItemsFrom(Tail(out), t)
         ELSE ItemsFrom(Tail(out), t)

Keys(out) == [k \in 1..Len(out) |-> KeyFn(out[k].item)]

AllSourcesSound ==
    \A s \in MoSources :
        mo_sources[s].end = "StopAsyncIteration" /\ IsSorted(mo_sources[s].items)

RECURSIVE TotalLen(_)
TotalLen(n) == IF n = 0 THEN 0 ELSE Len(mo_sources[n].items) + TotalLen(n - 1)

\* C8: over sources that are ordered by key and do not fail, the keys of the
\* output are non-decreasing, the elements of a source appear in source
\* order, nothing is raised, and when the merged stream reports exhaustion
\* the output holds every element of every source (so it is a permutation of
\* their concatenation; an empty source adds nothing and stops nothing).
C8_MergeOrderedSorted ==
    (mo_pc # "unused" /\ AllSourcesSound) =>
        /\ IsSorted(Keys(mo_out))
        /\ mo_pc # "raised"
        /\ \A s \in MoSources :
               /\ IsPrefix(ItemsFrom(mo_out, s), mo_sources[s].items)
               /\ mo_pc = "exhausted" =>
                      ItemsFrom(mo_out, s) = mo_sources[s].items
        /\ mo_pc = "exhausted" => Len(mo_out) = TotalLen(Len(mo_sources))

\* C8 witness: an empty first source and a second source [1, 2] were merged
\* to the end.
C8_Witness ==
    /\ mo_pc = "exhausted"
    /\ Len(mo_sources) = 2
    /\ AllSourcesSound
    /\ mo_sources[1].items = <<>>
    /\ mo_sources[2].items = <<1, 2>>
    /\ Keys(mo_out) = <<1, 2>>

\* C9: when an element has just been emitted, no element still pending in
\* the heap has the same key and comes from a source with a smaller index
\* (nor from the same source).
C9_EqualKeysBySourceIndex ==
    mo_pc = "yielded" =>
        \A h \in heap :
            h.key = KeyFn(mo_out[Len(mo_out)].item) =>
                h.source_index > mo_out[Len(mo_out)].src

\* C9 witness: sources [1, 2] and [1, 2] came out as a1, b1, a2, b2.
C9_Witness ==
    /\ Len(mo_sources) = 2
    /\ mo_sources[1].items = <<1, 2>>
    /\ mo_sources[2].items = <<1, 2>>
    /\ mo_out = << [item |-> 1, src |-> 1], [item |-> 1, src |-> 2],
                   [item |-> 2, src |-> 1], [item |-> 2, src |-> 2] >>

\* A source has failed, or has yielded the element on which key_fn raises.
MoFault(s) ==
    \/ iter_state[s] = "failed"
    \/ /\ iterators[s] > 0
       /\ KeyThrows(SourceSeq(s)[iterators[s]])

\* C10: as soon as advancing a source has failed or key_fn has raised on a
\* pulled element, the merged stream has raised that error, on the pull
\* that was under way: every earlier pull returned an element, and neither
\* that pull nor any later one did.  The error is the one of the source
\* that was advanced.
C10_MergeOrderedRaises ==
    /\ (\E s \in MoSources : MoFault(s)) =>
           /\ mo_pc = "raised"
           /\ mo_pulls = Len(mo_out) + 1 + mo_extra
    /\ mo_pc = "raised" =>
           \E s \in MoSources :
               /\ MoFault(s)
               /\ mo_error = (IF iter_state[s] = "failed" THEN "boom" ELSE "KeyError")
               /\ \A o \in MoSources \ {s} : ~MoFault(o)

\* C10 witness: the second source failed in the main loop, after two
\* elements had been emitted, and the consumer has pulled once more.
C10_Witness ==
    /\ mo_pc = "raised"
    /\ mo_error = "boom"
    /\ Len(mo_sources) = 2
    /\ iter_state[2] = "failed"
    /\ Len(mo_out) = 2
    /\ mo_extra = 1

\* ------------------------------------------------ zip and zip_longest claims
ZipNoFailure == \A i \in ZipInputs : ~zip_inputs[i].fails

ZipLengths == {zip_inputs[i].len : i \in ZipInputs}

ShortestLen == CHOOSE m \in ZipLengths : \A l \in ZipLengths : m <= l

LongestLen == CHOOSE m \in ZipLengths : \A l \in ZipLengths : m >= l

\* C11: for finite inputs that do not fail, the j-th tuple zip emits holds the
\* j-th element of every input at that input's position, and when zip ends it
\* has emitted as many tuples as the shortest input has elements (none when an
\* input is empty).
C11_ZipShortest ==
    (zip_mode = "zip" /\ ZipNoFailure) =>
        /\ \A j \in 1..Len(zip_out) :
               zip_out[j] = [i \in ZipInputs |-> Element(i, j)]
        /\ Len(zip_out) <= ShortestLen
        /\ zip_pc = "returned" => Len(zip_out) = ShortestLen

\* C11 witness: a zip of inputs of different lengths has ended after emitting
\* a tuple.
C11_Witness ==
    /\ zip_mode = "zip"
    /\ ZipNoFailure
    /\ zip_pc = "returned"
    /\ Len(zip_inputs) >= 2
    /\ ShortestLen # LongestLen
    /\ zip_out # <<>>

\* C12: for finite inputs that do not fail, the j-th tuple zip_longest emits
\* holds at each position the j-th element of that input when the input has
\* one and the fill value otherwise, and when zip_longest ends it has emitted
\* as many tuples as the longest input has elements (none when all are empty).
C12_ZipLongest ==
    (zip_mode = "zip_longest" /\ ZipNoFailure) =>
        /\ \A j \in 1..Len(zip_out) :
               zip_out[j] = [i \in ZipInputs |->
                                IF j <= zip_inputs[i].len THEN Element(i, j)
                                ELSE fillvalue]
        /\ Len(zip_out) <= LongestLen
        /\ zip_pc = "returned" => Len(zip_out) = LongestLen

\* C12 witness: a zip_longest of inputs of different lengths has ended, and
\* its last tuple holds the fill value at the position of a shorter input.
C12_Witness ==
    /\ zip_mode = "zip_longest"
    /\ ZipNoFailure
    /\ zip_pc = "returned"
    /\ zip_out # <<>>
    /\ \E i \in ZipInputs : zip_out[Len(zip_out)][i] = fillvalue

\* The input whose failure was produced: it was asked once more than it has
\* elements.
FailureProduced(i) ==
    zip_inputs[i].fails /\ zip_asked[i] > zip_inputs[i].len

ZipErrorSurfaced ==
    /\ zip_pc = "raised" =>
           /\ zip_error = "boom"
           /\ Len(zip_out) = zip_round - 1
           /\ \A j \in 1..Len(zip_out) : Len(zip_out[j]) = Len(zip_inputs)
           /\ \E i \in ZipInputs :
                  FailureProduced(i) /\ Len(zip_out) = zip_inputs[i].len
    /\ zip_pc # "raised" => \A i \in ZipInputs : ~FailureProduced(i)

\* C13: when advancing an input of zip or zip_longest fails during round j,
\* the generator raises that error at once: the consumer has received the
\* j-1 complete tuples of the earlier rounds, no tuple is emitted for round j
\* or later, and no input is advanced any more.
C13_ZipErrorImmediate ==
    /\ []ZipErrorSurfaced
    /\ [][zip_pc = "raised" =>
              /\ zip_pc' = "raised"
              /\ zip_asked' = zip_asked
              /\ zip_out' = zip_out]_vars

\* C13 witness: an input failed after a tuple had been emitted, and the
\* consumer has pulled once more since.
C13_Witness ==
    /\ zip_pc = "raised"
    /\ Len(zip_inputs) >= 2
    /\ zip_out # <<>>
    /\ zip_extra = 1

\* ------------------------------------------------------------ chunk claims
RECURSIVE Concat(_)
Concat(batches) ==
    IF batches = <<>> THEN <<>> ELSE Head(batches) \o Concat(Tail(batches))

\* The upstream sequence of a source of n elements.
Upstream(n) == [k \in 1..n |-> k]

\* C14: for chunk(k) with k >= 1 over a finite upstream of N elements that
\* does not fail, when the stream has ended the batches have sizes k, ..., k, r
\* with r = N mod k (no last batch when r = 0, no batch when N = 0) and their
\* concatenation is the upstream sequence.
C14_ChunkSizes ==
    (size >= 1 /\ ~chunk_source.fails /\ chunk_pc = "returned") =>
        LET N == chunk_source.len
            full == N \div size
            r == N % size
        IN  /\ Concat(chunk_out) = Upstream(N)
            /\ Len(chunk_out) = full + (IF r = 0 THEN 0 ELSE 1)
            /\ \A j \in 1..full : Len(chunk_out[j]) = size
            /\ r # 0 => Len(chunk_out[full + 1]) = r

\* C14 witness: chunk(2) over three elements has ended with a full batch and a
\* batch of one.
C14_Witness ==
    /\ size = 2
    /\ chunk_source = [len |-> 3, fails |-> FALSE]
    /\ chunk_pc = "returned"
    /\ chunk_out = <<<<1, 2>>, <<3>>>>

\* C15: a chunk whose size is <= 0 never advances its upstream and never
\* emits a batch; once its first pull has been answered, the answer was a
\* validation error.
C15_ChunkSizeValidated ==
    size <= 0 =>
        /\ chunk_asked = 0
        /\ chunk_out = <<>>
        /\ chunk_pc \notin {"unstarted", "loop"} =>
               chunk_pc = "raised" /\ chunk_error = "ValueError"

\* ----------------------------------------------------------- window claims
\* The batches of a finished window(interval, include_partial=True) are a
\* partition of the upstream in which no element of a batch is stamped later
\* than the batch's first element plus the interval, and every batch but the
\* first opens with an element stamped later than the first element of the
\* batch before plus the interval.
WindowPartition ==
    LET out == win_out[TRUE]
        t0(b) == Stamp(out[b][1])
    IN  /\ Concat(out) = Upstream(Len(win_source.stamps))
        /\ \A b \in 1..Len(out) : \A x \in 1..Len(out[b]) :
               Stamp(out[b][x]) <= t0(b) + interval
        /\ \A b \in 2..Len(out) : t0(b) > t0(b - 1) + interval

WindowDone(include_partial) ==
    ~win_source.fails /\ win_pc[include_partial] = "returned"

\* C16 as stated: with include_partial=true the batches of window(interval)
\* partition a finite upstream within the interval bounds, for every interval.
C16_WindowPartitionAnyInterval == WindowDone(TRUE) => WindowPartition

\* C16, amended: with include_partial=true and interval >= 0, the batches of
\* window(interval) partition a finite upstream: their concatenation is the
\* upstream, every element of a batch has a timestamp <= t0 + interval (t0 the
\* timestamp of the batch's first element), and the first element of every
\* batch after the first has a timestamp > (t0 of the batch before) + interval.
C16_WindowPartition ==
    (WindowDone(TRUE) /\ interval >= 0) => WindowPartition

\* C16 witness: interval 1 over the timestamps 0, 1, 2 has ended with the
\* batches [0, 1] and [2].
C16_Witness ==
    /\ WindowDone(TRUE)
    /\ interval = 1
    /\ win_source.stamps = <<0, 1, 2>>
    /\ win_out[TRUE] = <<<<1, 2>>, <<3>>>>

\* All but the last element of a sequence.
ButLast(s) == IF s = <<>> THEN <<>> ELSE SubSeq(s, 1, Len(s) - 1)

\* C17: over the same input, window with include_partial=false emits the
\* batches window with include_partial=true emits, but for the last one.
C17_WindowNoPartial ==
    (WindowDone(TRUE) /\ WindowDone(FALSE)) =>
        win_out[FALSE] = ButLast(win_out[TRUE])

\* C17 witness: both windows have ended; with include_partial=true two batches
\* were emitted, with include_partial=false the first of them only.
C17_Witness ==
    /\ WindowDone(TRUE)
    /\ WindowDone(FALSE)
    /\ Len(win_out[TRUE]) = 2
    /\ win_out[FALSE] = <<win_out[TRUE][1]>>

\* ---------------------------------------------------- sliding_window claims
SwLen == Len(sw_source.items)

\* The upstream holds no None and its timestamps never decrease.
SwOrdered ==
    /\ \A k \in 1..SwLen : sw_source.items[k] # <<>>
    /\ \A k \in 1..(SwLen - 1) : SwStamp(k) <= SwStamp(k + 1)

\* B_w: the elements stamped within [w, w + size), in arrival order.
Batch(w) ==
    LET Within(x) == w <= SwStamp(x) /\ SwStamp(x) < w + sw_size
    IN  SelectSeq(Upstream(SwLen), Within)

\* The element on whose arrival the window that starts at w is over: the first
\* one stamped size or more after w; 0 when there is none.
ClosedAt(w) ==
    LET late == {x \in 1..SwLen : SwStamp(x) - w >= sw_size}
    IN  IF late = {} THEN 0 ELSE CHOOSE x \in late : \A y \in late : x <= y

\* The batches due from the k-th window start on, for the starts
\* t_first + k * advance that do not exceed the last timestamp.
RECURSIVE Due(_)
Due(k) ==
    LET w == SwStamp(1) + k * advance
    IN  IF w > SwStamp(SwLen) THEN <<>>
        ELSE (IF Batch(w) = <<>> THEN <<>>
              ELSE <<[items |-> Batch(w), ts |-> w, at |-> ClosedAt(w)]>>)
             \o Due(k + 1)

\* C18: for elements that are not None with non-decreasing timestamps, size >
\* 0, advance > 0 and include_partial=true, a sliding_window that has ended
\* has emitted, in increasing order of window start, exactly the non-empty
\* batches B_w of the starts w = t_first + k * advance up to the last
\* timestamp, each batch of a window that was over before the end on the
\* arrival of the first element stamped size or more after its start.
C18_SlidingBatches ==
    (sw_pc = "returned" /\ sw_partial /\ ~sw_source.fails /\ SwOrdered) =>
        sw_out = (IF SwLen = 0 THEN <<>> ELSE Due(0))

\* C18 witness: size 2, advance 1 over the timestamps 0, 1, 2 has ended with
\* the batches [0, 1], [1, 2] and [2].
C18_Witness ==
    /\ sw_pc = "returned"
    /\ sw_partial
    /\ sw_size = 2
    /\ advance = 1
    /\ sw_source = [items |-> <<<<0>>, <<1>>, <<2>>>>, fails |-> FALSE]
    /\ sw_out = <<[items |-> <<1, 2>>, ts |-> 0, at |-> 3],
                  [items |-> <<2, 3>>, ts |-> 1, at |-> 0],
                  [items |-> <<3>>, ts |-> 2, at |-> 0]>>

\* ------------------------------------------------------ construction claims
\* C19: split(branches) with branches < 2 and sliding_window with size <= 0
\* or advance <= 0 are rejected by the call itself: once the call has been
\* made its outcome is a ValueError, no stream is built, and the upstream has
\* not been advanced.
C19_RejectedAtCall ==
    /\ (split_call.result \notin {"unused", "uncalled"}
            /\ split_call.branches < 2) =>
           /\ split_call.result = "ValueError"
           /\ advances = 0
           /\ iterator = 0
    /\ (sw_pc \notin {"unused", "uncalled"}
            /\ (sw_size <= 0 \/ advance <= 0)) =>
           /\ sw_pc = "ValueError"
           /\ sw_error = "ValueError"
           /\ sw_asked = 0

\* C19 witness: split(1) on a stream over a source that holds elements has
\* raised ValueError.
C19_Witness ==
    /\ split_call = [branches |-> 1, result |-> "ValueError"]
    /\ split_source.items # <<>>

\* --------------------------------------------------- tap, skip, take claims
\* The elements skip(skip_count) discards, and the elements its stream holds.
Discarded == IF skip_count > 0 THEN skip_count ELSE 0

AfterSkip == IF pipe_source.len > Discarded THEN pipe_source.len - Discarded
             ELSE 0

\* C20: take(n) with n <= 0 never asks its upstream for an element, and so
\* nothing is asked of the source and the tap observes nothing; take(n) never
\* asks more than n times; and over an upstream of at least n elements a
\* take(n) that has ended has asked exactly n times, also when the consumer
\* has pulled again after the end: in tap -> skip(k) -> take(n) the source
\* was asked k + n times, the tap observed the first k + n elements and the
\* consumer received the n elements after the first k.
C20_TakePullsNoMore ==
    /\ take_count <= 0 =>
           take_pulls = 0 /\ pipe_asked = 0 /\ tap_seen = <<>>
    /\ take_count > 0 => take_pulls <= take_count
    /\ (pipe_pc = "returned" /\ take_count > 0 /\ AfterSkip >= take_count) =>
           /\ take_pulls = take_count
           /\ pipe_asked = Discarded + take_count
           /\ tap_seen = Upstream(Discarded + take_count)
           /\ pipe_out = [j \in 1..take_count |-> Discarded + j]

\* C20 witness: tap -> skip(1) -> take(3) over five elements has yielded
\* 2, 3, 4, the tap has observed 1, 2, 3, 4, and the consumer has pulled once
\* more after the end.
C20_Witness ==
    /\ pipe_source.len = 5
    /\ skip_count = 1
    /\ take_count = 3
    /\ pipe_pc = "returned"
    /\ pipe_extra = 1
    /\ pipe_out = <<2, 3, 4>>
    /\ tap_seen = <<1, 2, 3, 4>>

\* ------------------------------------------------ map, filter, tap claims
\* The elements of a sequence of source elements the predicate is truthy for.
Truthy(s) == SelectSeq(s, LAMBDA item : predicate[item] = "truthy")

\* What skip(skip_count) followed by take(take_count) emits of the source:
\* of the elements after the first skip_count, the first take_count.
Wanted == IF take_count > 0 THEN take_count ELSE 0

SkipThenTake ==
    [j \in 1..(IF AfterSkip < Wanted THEN AfterSkip ELSE Wanted) |->
        Discarded + j]

\* C21: filter emits, in upstream order, exactly the elements its predicate
\* is truthy for: at every moment the output is the truthy ones among the
\* elements examined so far, and all elements have been examined when the
\* stream ends.  skip(k) followed by take(n) emits, in upstream order, of the
\* elements after the first k (all when k <= 0, none when the upstream has
\* at most k) the first n (all when fewer are left, none when n <= 0): the
\* output is a prefix of that sequence at every moment and the whole of it
\* when the stream ends.
C21_Subsequences ==
    /\ cb_op = "filter" =>
           /\ called = Upstream(Len(called))
           /\ cb_out = Truthy(called)
           /\ cb_pc = "returned" => cb_out = Truthy(Upstream(cb_source.len))
    /\ pipe_pc # "unused" =>
           /\ Len(pipe_out) <= Len(SkipThenTake)
           /\ pipe_out = SubSeq(SkipThenTake, 1, Len(pipe_out))
           /\ pipe_pc = "returned" => pipe_out = SkipThenTake

\* C21 witness: a filter over three elements has ended having dropped the
\* second only; and a skip(1).take(3) over three elements has ended with the
\* two elements that were left.
C21_Witness ==
    \/ /\ cb_op = "filter"
       /\ cb_pc = "returned"
       /\ predicate = <<"truthy", "falsy", "truthy">>
       /\ cb_out = <<1, 3>>
    \/ /\ pipe_pc = "returned"
       /\ pipe_source.len = 3
       /\ skip_count = 1
       /\ take_count = 3
       /\ pipe_out = <<2, 3>>

\* What the generator has yielded once it has examined the first n elements
\* and the callable returned for each of them.
OutputsFor(n) ==
    IF cb_op = "filter" THEN Truthy(Upstream(n))
    ELSE [j \in 1..n |-> Emitted(j)]

\* C22: when the callable of map, filter or tap raises on an element, the
\* consumer has received the outputs of the earlier elements and nothing
\* for the failing one, the error has reached the consumer, the callable was
\* called once with each element up to the failing one, and the source is
\* not asked again, whatever the consumer pulls afterwards; and no element
\* the callable raises for is passed over.
C22_CallbackErrorTerminates ==
    /\ \A item \in 1..Len(called) :
           predicate[called[item]] = "raises" =>
               /\ item = Len(called)
               /\ cb_pc = "raised"
               /\ cb_error = "CallbackError"
    /\ cb_error = "CallbackError" =>
           /\ cb_pc = "raised"
           /\ predicate[cb_asked] = "raises"
           /\ called = Upstream(cb_asked)
           /\ cb_out = OutputsFor(cb_asked - 1)

\* C22 witness: the callable of a map raised on the third of three elements;
\* the consumer holds the two mapped values and has pulled again since.
C22_Witness ==
    /\ cb_op = "map"
    /\ cb_error = "CallbackError"
    /\ cb_asked = 3
    /\ Len(cb_out) = 2
    /\ cb_extra = 1

\* -------------------------------------------------------------- sink claims
\* The invocations of sink that were made and have not ended.
Outstanding ==
    {k \in DOMAIN invocations : invocations[k] \in {"created", "running"}}

\* From one state to the next no element is asked of the upstream and no
\* invocation is made.
NothingPulled ==
    /\ sink_asked' = sink_asked
    /\ sink_calls' = sink_calls

\* C23: for parallel >= 1 the staging buffer never holds more than parallel
\* entries and never more than parallel invocations are outstanding; and
\* from a state whose buffer holds parallel entries no step asks the
\* upstream or makes an invocation, and the only step that changes the
\* buffer empties it when every invocation of the batch has completed.
C23_SinkBounded ==
    /\ [](parallel >= 1 =>
              /\ Len(sink_chunk) <= parallel
              /\ Cardinality(Outstanding) <= parallel)
    /\ [][(parallel >= 1 /\ Len(sink_chunk) = parallel) =>
              /\ NothingPulled
              /\ sink_chunk' # sink_chunk =>
                     (GatherDone /\ sink_chunk' = <<>>)]_vars

\* C23 witness: with parallel = 2 the second batch is being filled: the
\* first two invocations have completed and the third is staged.
C23_Witness ==
    /\ parallel = 2
    /\ sink_calls = <<1, 2, 3>>
    /\ sink_chunk = <<3>>
    /\ invocations = <<"completed", "completed", "created">>

\* C24: a sink called with parallel <= 0 asks nothing of its upstream and
\* makes no invocation.
C24_ParallelValidated ==
    parallel <= 0 => (sink_asked = 0 /\ sink_calls = <<>>)

SplitUnpulled ==
    /\ split_call.result \in {"uncalled", "built", "ValueError"}
    /\ \A i \in DOMAIN requests : requests[i] = 0 /\ extra[i] = 0
SlidingUnpulled == sw_pc \in {"uncalled", "unstarted", "ValueError"}
CallbackUnpulled == cb_pc \in {"uncalled", "unstarted"}
MergeUnpulled == merge_pc = "unstarted"
ChunkUnpulled == chunk_pc = "unstarted"

\* C26: as long as nothing has been pulled from the stream an operator
\* method returned, no source has been advanced, no callable has been
\* called and no pumping task exists: this holds before and after the calls
\* of split(n), sliding_window, map, filter and tap, whether the call
\* returns or raises, and for the streams merge and chunk have built.
C26_BuildingIsLazy ==
    /\ SplitUnpulled => (advances = 0 /\ iterator = 0 /\ ~raised)
    /\ SlidingUnpulled => sw_asked = 0
    /\ CallbackUnpulled => (cb_asked = 0 /\ called = <<>>)
    /\ MergeUnpulled =>
           /\ \A t \in DOMAIN tasks : tasks[t] = "none" /\ pump_pos[t] = 0
           /\ queue = <<>>
    /\ ChunkUnpulled => chunk_asked = 0

\* C26 witness: a call has returned its stream and nothing has been pulled:
\* split(n) has built its branches over a non-empty upstream, or a map over
\* a non-empty source was built.
C26_Witness ==
    \/ /\ split_call.result = "built"
       /\ SplitUnpulled
       /\ split_source.items # <<>>
    \/ /\ cb_op = "map"
       /\ cb_pc = "unstarted"
       /\ cb_source.len > 0

\* --------------------------------------------------------- container claims
\* The last call was resolve(token) on a token registered as scoped.
ResolvedScoped ==
    /\ di_result.op = "resolve"
    /\ providers[di_result.token].lifetime = "scoped"

\* C27: when a token registered as scoped has been resolved while no
\* `with container.scope()` was under way, before the first scope or after
\* the last one was left, the call raised ScopeError and no factory made an
\* instance.
C27_ScopedNeedsScope ==
    (ResolvedScoped /\ scope_tokens = <<>>) =>
        /\ di_result.error = "ScopeError"
        /\ di_result.instance = 0
        /\ di_result.created = 0

\* C27 witness: a scope in which an instance was made has been left, and
\* resolve of a scoped token has raised ScopeError since.
C27_Witness ==
    /\ ResolvedScoped
    /\ scope_tokens = <<>>
    /\ entered > 0
    /\ instances # <<>>
    /\ di_result.error = "ScopeError"

\* The instances the factories of a scoped registration of the token made.
ScopedInstances(token) ==
    {i \in 1..Len(instances) :
        instances[i].token = token /\ instances[i].lifetime = "scoped"}

\* The dicts of the scopes under way: the variable's and the saved ones.
LiveCaches == {c \in {scoped_cache} \cup Range(scope_tokens) : c # <<>>}

\* C28: a resolve of a scoped token inside a scope returns the instance the
\* scope's dict holds for the token, which was made in that scope, and a
\* dict never changes what it holds for a token, so every resolve in one
\* scope returns the same instance and resolves in different scopes return
\* different ones; the factory of a scoped token has run at most once in
\* each scope; and whatever singleton instances the scoped instances were
\* built with are one and the same instance per token across the scopes.
C28_ScopedPerScope ==
    /\ [](/\ (ResolvedScoped /\ di_result.error = "None") =>
                /\ scoped_cache # <<>>
                /\ di_result.instance =
                       scoped_cache[1].held[di_result.token]
                /\ instances[di_result.instance].scope =
                       ScopeOf(scoped_cache)
          /\ \A token \in Tokens : \A i, j \in ScopedInstances(token) :
                instances[i].scope = instances[j].scope => i = j
          /\ \A i, j \in ScopedInstances("Repository") :
                (/\ instances[instances[i].dep].lifetime = "singleton"
                 /\ instances[instances[j].dep].lifetime = "singleton")
                    => instances[i].dep = instances[j].dep)
    /\ [][\A c \in LiveCaches : \A token \in Tokens :
              c[1].held[token] # 0 =>
                  \A d \in {scoped_cache'} \cup Range(scope_tokens') :
                      (d # <<>> /\ d[1].id = c[1].id) =>
                          d[1].held[token] = c[1].held[token]]_vars

\* C28 witness: Repository, registered as scoped over a singleton Service,
\* was resolved in two scopes: two instances of it exist, made in different
\* scopes and built with the same Service.
C28_Witness ==
    \E i, j \in ScopedInstances("Repository") :
        /\ instances[i].scope # instances[j].scope
        /\ instances[i].dep = instances[j].dep
        /\ instances[instances[i].dep].lifetime = "singleton"

\* C29: every instance resolve returns was made by the factory registered
\* for the token at that moment, so after register(token, provider,
\* replace=True) it is the replacement's; and a register that raises
\* ProviderAlreadyRegisteredError leaves the providers as they were.
C29_ReplaceOverwrites ==
    /\ []((di_result.op = "resolve" /\ di_result.error = "None") =>
              instances[di_result.instance].factory =
                  providers[di_result.token].factory)
    /\ [][di_result'.error = "ProviderAlreadyRegisteredError" =>
              providers' = providers]_vars

\* ------------------------------------------------- split termination claims
\* The branches inside next_for: at the top of the loop, queued for the lock
\* or holding it.
Asking == {i \in Branches : branch_pc[i] \in {"top", "waiting", "locked"}}

\* C30: once the split is terminated it stays terminated, no branch is in or
\* enters the upstream advance, the upstream is not advanced and its position
\* does not move, whichever branch runs and whoever waited for the lock; a
\* request that ends after termination ends by an element taken from the
\* branch's FIFO or by the termination signal.
C30_TerminatedNeverAdvances ==
    /\ [](done => \A i \in Branches : branch_pc[i] # "advancing")
    /\ [][done =>
            /\ done'
            /\ advances' = advances
            /\ iterator' = iterator
            /\ \A i \in Asking :
                   \/ branch_pc'[i] \in {"top", "waiting", "locked"}
                   \/ /\ branch_pc'[i] = "idle"
                      /\ \/ /\ buffers[i] # <<>>
                            /\ delivered'[i] = Append(delivered[i], Head(buffers[i]))
                            /\ signals'[i] = signals[i]
                         \/ /\ buffers[i] = <<>>
                            /\ delivered'[i] = delivered[i]
                            /\ signals'[i] = Append(signals[i], TerminalSignal)]_vars

\* C30 witness: the split terminated while a branch queued for the lock; the
\* branch has the lock now, its FIFO is empty, and the upstream was advanced
\* once per element and once for its end.
C30_Witness ==
    /\ done
    /\ advances = Len(split_source.items) + 1
    /\ \E i \in Branches : branch_pc[i] = "locked" /\ buffers[i] = <<>>

\* ------------------------------------------------ merge completion tokens
\* The entries a step has put on the queue.
Appended ==
    IF Len(queue') > Len(queue)
    THEN SubSeq(queue', Len(queue) + 1, Len(queue'))
    ELSE <<>>

PutBy(t, entries) == SelectSeq(entries, LAMBDA e : e.src = t)

Markers(entries) == SelectSeq(entries, IsDoneMarker)

\* The completion tokens the consumer has counted.
TokensCounted ==
    IF merge_pc = "unstarted" THEN 0 ELSE Len(merge_sources) - active_sources

\* C31: the step that ends a pumping task puts exactly one completion token,
\* as the last of its entries - after the source's elements on exhaustion,
\* after the exception on a failure and on a cancellation - no other step of
\* the task puts one, and an ended task puts nothing; the consumer never
\* counts more tokens than there are ended tasks, so never more than sources.
C31_OneCompletionToken ==
    /\ [](/\ active_sources >= 0
          /\ TokensCounted + Len(Markers(queue)) =
                 Cardinality({t \in Pumps : Ended(t)}))
    /\ [][\A t \in Pumps :
            LET mine == PutBy(t, Appended) IN
            /\ Ended(t) => mine = <<>>
            /\ ~Ended(t)' => Markers(mine) = <<>>
            /\ (~Ended(t) /\ Ended(t)') =>
                  /\ Len(Markers(mine)) = 1
                  /\ IsDoneMarker(mine[Len(mine)])
                  /\ pump_pos[t] = merge_sources[t].len \/ cancel_req[t]
                  /\ (merge_sources[t].fails \/ cancel_req[t]) =>
                         /\ Len(mine) = 2
                         /\ IsBaseException(mine[1])]_vars

\* C31 witness: a failure was raised to the consumer after a cancelled pump
\* had put its CancelledError and then its completion token, and a pump that
\* failed had put its exception and then its token.
C31_Witness ==
    /\ merge_pc = "raised"
    /\ \E t \in Pumps :
          /\ cancel_req[t]
          /\ Ended(t)
          /\ Len(queue) >= 2
          /\ queue[Len(queue)] = DoneEntry(t)
          /\ queue[Len(queue) - 1] = ExcEntry(t, "CancelledError")
          /\ pump_pos[t] < merge_sources[t].len
    /\ \E t \in Pumps : ~cancel_req[t] /\ Ended(t) /\ merge_sources[t].fails

\* ------------------------------------------------------- merge termination
\* C32: a merge that is pulled until its end, with the consumer and the
\* pumping tasks scheduled fairly, ends: either the consumer is told the
\* exhaustion, after one completion token per source, or a source's failure
\* is raised to it.
C32_MergeTerminates ==
    <>(\/ merge_pc = "exhausted" /\ active_sources = 0
       \/ merge_pc = "raised" /\ merge_error.obj = "boom")

\* C32 witness: a merge of two failing sources, one of them empty, has raised.
C32_Witness ==
    /\ merge_pc = "raised"
    /\ Len(merge_sources) = 2
    /\ \A t \in Pumps : merge_sources[t].fails
    /\ \E t \in Pumps : merge_sources[t].len = 0

\* ------------------------------------------- zip and zip_longest advances
\* C33: zip asks its inputs in input order, once per round, up to the first
\* exhausted one.  Inside round r the inputs before the current one have
\* been asked r times and the others r - 1 times; when zip has returned with
\* m tuples emitted, the exhausted input has m elements and was asked m + 1
\* times, every input before it was advanced m + 1 times, its (m+1)-th
\* element being in the dropped tuple and in no emitted one, and every input
\* after it was advanced m times.
C33_ZipAdvanceCounts ==
    zip_mode = "zip" =>
        /\ zip_pc = "round" =>
               \A i \in ZipInputs :
                   zip_asked[i] = IF i < zip_index THEN zip_round
                                  ELSE zip_round - 1
        /\ zip_pc = "returned" =>
               LET m == Len(zip_out) IN
               /\ zip_index \in ZipInputs
               /\ zip_inputs[zip_index].len = m
               /\ zip_asked[zip_index] = m + 1
               /\ \A i \in ZipInputs :
                      /\ i < zip_index =>
                            /\ zip_asked[i] = m + 1
                            /\ zip_inputs[i].len >= m + 1
                            /\ items[i] = Element(i, m + 1)
                            /\ \A j \in 1..m : zip_out[j][i] # Element(i, m + 1)
                      /\ i > zip_index => zip_asked[i] = m

\* C33 witness: a zip of three inputs has returned after a tuple, on the
\* exhaustion of its second input.
C33_Witness ==
    /\ zip_mode = "zip"
    /\ zip_pc = "returned"
    /\ Len(zip_inputs) = 3
    /\ zip_index = 2
    /\ zip_out # <<>>

\* C34: zip_longest does not ask an input that has signalled exhaustion: an
\* input marked finished was asked once more than it has elements and is not
\* asked again, its position holds the fill value in the tuple of the round
\* of its exhaustion and of every later round, and when zip_longest has
\* returned every input of length L was asked L + 1 times.
C34_ZipLongestAdvances ==
    /\ [](zip_mode = "zip_longest" =>
            \A i \in ZipInputs :
                /\ zip_asked[i] <= zip_inputs[i].len + 1
                /\ finished[i] => zip_asked[i] = zip_inputs[i].len + 1
                /\ (finished[i] /\ zip_pc = "round" /\ i < zip_index) =>
                       items[i] = fillvalue
                /\ \A j \in 1..Len(zip_out) :
                       j > zip_inputs[i].len => zip_out[j][i] = fillvalue
                /\ zip_pc = "returned" =>
                       finished[i] /\ zip_asked[i] = zip_inputs[i].len + 1)
    /\ [][zip_mode = "zip_longest" =>
            \A i \in ZipInputs :
                finished[i] => zip_asked'[i] = zip_asked[i]]_vars

\* C34 witness: a zip_longest has returned whose shortest input ended two
\* rounds before its longest one, and so was passed over in two rounds.
C34_Witness ==
    /\ zip_mode = "zip_longest"
    /\ zip_pc = "returned"
    /\ \E i, k \in ZipInputs : zip_inputs[i].len + 2 <= zip_inputs[k].len

\* ------------------------------------------------------- non-empty batches
\* C35: no batch that chunk with a size of at least 1, window or
\* sliding_window has yielded is empty, whatever the elements' timestamps.
C35_BatchesNonEmpty ==
    /\ size >= 1 => \A j \in 1..Len(chunk_out) : chunk_out[j] # <<>>
    /\ \A p \in DOMAIN win_out :
           \A j \in 1..Len(win_out[p]) : win_out[p][j] # <<>>
    /\ \A j \in 1..Len(sw_out) : sw_out[j].items # <<>>

\* A window whose first element fails the interval test has yielded a batch.
WindowFirstBeyond ==
    /\ interval < 0
    /\ \E p \in DOMAIN win_out : win_out[p] # <<>>

\* A sliding_window has yielded two batches in a row whose windows lie more
\* than one advance apart: a window opened between them was dropped.
SlidingDropped ==
    \E j \in 1..(Len(sw_out) - 1) : sw_out[j + 1].ts - sw_out[j].ts > advance

\* C35 witness: the cases of the three operators.
C35_Witness ==
    \/ size >= 1 /\ Len(chunk_out) >= 2
    \/ WindowFirstBeyond
    \/ SlidingDropped

\* ------------------------------------------------ split consumer cancelled
\* C36: the cancellation of a task that consumes a branch does not terminate
\* the split: the stored error is none or the failure of the upstream, the
\* split is marked terminated only when the upstream is exhausted or has
\* failed, and a branch that is told the end of the stream has delivered
\* every element of the upstream.
C36_BranchesIndependent ==
    /\ error \in {"None", "boom"}
    /\ done => /\ iterator = Len(split_source.items)
               /\ split_source.fails => raised
    /\ \A i \in Branches :
           (signals[i] # <<>> /\ signals[i][1] = "StopAsyncIteration") =>
               delivered[i] = split_source.items

\* ------------------------------------------------- merge of exception values
\* C37: an element a source has yielded is emitted as an element, whatever
\* its value: the queue entry _merge raises from is never an element, and
\* an element that a source has produced is on the queue or was yielded to
\* the consumer.
C37_ClassifiedByKind ==
    /\ merge_error.idx = 0
    /\ \A t \in Pumps :
           \A k \in 1..merge_sources[t].len :
               \/ Yielded(t, k) \in Range(merge_out)
               \/ \E j \in 1..Len(queue) : queue[j] = Yielded(t, k)
               \/ pump_pos[t] < k

\* ------------------------------------------------------ merge_ordered heap
\* The heap entries that came from source s.
Pending(s) == {e \in heap : e.source_index = s}

\* C38: the heap never holds two elements of one source, so two entries
\* never agree in key and source index; when the main loop is about to pop,
\* the heap holds one element of every source that is not exhausted and
\* none of the others; a source is asked only while it has not signalled
\* its end, and when the merge has returned a source of L elements was
\* asked L + 1 times.
C38_OnePendingPerSource ==
    /\ \A s \in MoSources :
           /\ Cardinality(Pending(s)) <= 1
           /\ mo_asked[s] <= Len(SourceSeq(s)) + 1
           /\ mo_pc = "loop" =>
                  Cardinality(Pending(s)) =
                      (IF iter_state[s] = "live" THEN 1 ELSE 0)
           /\ mo_pc = "exhausted" => mo_asked[s] = Len(SourceSeq(s)) + 1
    /\ \A a, b \in heap :
           a # b => ~(a.key = b.key /\ a.source_index = b.source_index)
    /\ mo_pc = "yielded" => iter_state[source_index] = "live"

\* C38 witness: a merge of two sources of different lengths that hold equal
\* keys has yielded every element and returned.
C38_Witness ==
    /\ mo_pc = "exhausted"
    /\ Len(mo_sources) = 2
    /\ Len(mo_sources[1].items) # Len(mo_sources[2].items)
    /\ \E i \in DOMAIN mo_sources[1].items, j \in DOMAIN mo_sources[2].items :
           mo_sources[1].items[i] = mo_sources[2].items[j]
    /\ Len(mo_out) = Len(mo_sources[1].items) + Len(mo_sources[2].items)

\* ------------------------------------------------------ sink on the error path
\* C39: when a failure of the upstream has left a sink of parallel >= 1,
\* every invocation sink has made, the staged ones included, has completed.
C39_SinkCompletesOnError ==
    (parallel >= 1 /\ sink_pc = "raised" /\ sink_error = "boom") =>
        \A k \in 1..Len(sink_calls) : invocations[k] = "completed"

\* ------------------------------------------------------- nested DI scopes
\* C40: scopes nest and unwind.  No dict is current exactly when no
\* `with container.scope()` is under way, and the outermost one has saved
\* "no dict"; every scope under way has a dict of its own; an instance that
\* resolve returns for a scoped token was made in the innermost scope and is
\* held by no enclosing one.  Entering a scope makes an empty dict current;
\* leaving one, at the end of its body or by an exception, makes current
\* again the dict that was current when it was entered, with what it held.
C40_ScopesNest ==
    /\ [](/\ (scope_tokens = <<>>) <=> (scoped_cache = <<>>)
          /\ scope_tokens # <<>> => scope_tokens[1] = <<>>
          /\ \A k \in 2..Len(scope_tokens) :
                 /\ scope_tokens[k] # <<>>
                 /\ \A c \in {scoped_cache} \cup
                          {scope_tokens[j] : j \in (k + 1)..Len(scope_tokens)} :
                        ScopeOf(c) # ScopeOf(scope_tokens[k])
          /\ (ResolvedScoped /\ di_result.error = "None") =>
                 /\ instances[di_result.instance].scope = ScopeOf(scoped_cache)
                 /\ \A c \in Range(scope_tokens) :
                        c # <<>> =>
                            c[1].held[di_result.token] # di_result.instance)
    /\ [][/\ Len(scope_tokens') > Len(scope_tokens) =>
                 /\ scoped_cache' # <<>>
                 /\ scoped_cache'[1].held = Nothing
                 /\ scope_tokens'[Len(scope_tokens')] = scoped_cache
          /\ Len(scope_tokens') < Len(scope_tokens) =>
                 scoped_cache' = scope_tokens[Len(scope_tokens)]]_vars

\* C40 witness: an inner scope in which a scoped token was resolved anew has
\* been left, and the enclosing scope has since returned, without making
\* one, the instance it held for the token before.
C40_Witness ==
    /\ ResolvedScoped
    /\ di_result.error = "None"
    /\ di_result.created = 0
    /\ Len(scope_tokens) = 1
    /\ entered = 2
    /\ instances[di_result.instance].scope = 1
    /\ \E i \in ScopedInstances(di_result.token) : instances[i].scope = 2

====
